---- MODULE Spec2Model ----
(***************************************************************************)
(* The resume scoring engine of ai-resume-score, as a state machine.       *)
(*                                                                         *)
(* Two variants of score_resume exist: the classic one                     *)
(* (src/ai_resume_score_app.py) and the research-backed one with a job     *)
(* description (src/ai_resume_score_app_v2.py).  A text is a sequence of   *)
(* characters, each a one-character string ("BULLET" and "MIDDOT" stand    *)
(* for U+2022 and U+00B7).  Scores are integers in hundredths of a point   *)
(* (1000 is 10.0): the classic Formatting score has two decimals.          *)
(***************************************************************************)
EXTENDS Integers, Sequences, FiniteSets, TLC

VARIABLES
  app,              \* the program that runs: "classic" (ai_resume_score_app.py), "v13" (v1.3, the second
                    \* program of that file) or "research" (ai_resume_score_app_v2.py)
  ROLE_KEYWORDS,    \* the module's global role table (a mutable dict of lists)
  TfidfVectorizer,  \* v2: TRUE when sklearn was imported, FALSE when the import fell back to None
  pc,               \* "idle" before a call of score_resume, "returned" or "raised" after it
  call,             \* the arguments of the call of score_resume
  ret,              \* what the call returned: (total, breakdown, suggestions)
  extras_seen,      \* history: TRUE once a call of score_resume was given extra keywords
  PyPDF2,           \* TRUE when a PDF reader was imported, FALSE when the import fell back to None
  docx2txt,         \* TRUE when docx2txt was imported, FALSE when the import fell back to None
  leads_csv,        \* the file leads.csv: whether it exists, and its rows
  run               \* per browser session: the script run that serves its form submission

\* What a call of score_resume reads and writes.
score_vars == <<ROLE_KEYWORDS, pc, call, ret, extras_seen>>

\* What a script run reads and writes besides.
io_vars == <<leads_csv, run>>

\* What the import statements set.
import_vars == <<app, TfidfVectorizer, PyPDF2, docx2txt>>

vars == <<app, ROLE_KEYWORDS, TfidfVectorizer, pc, call, ret, extras_seen,
          PyPDF2, docx2txt, leads_csv, run>>

------------------------------------------------------------------------------
(* Characters *)

LOWER == <<"a","b","c","d","e","f","g","h","i","j","k","l","m",
           "n","o","p","q","r","s","t","u","v","w","x","y","z">>
UPPER == <<"A","B","C","D","E","F","G","H","I","J","K","L","M",
           "N","O","P","Q","R","S","T","U","V","W","X","Y","Z">>
DIGITS == <<"0","1","2","3","4","5","6","7","8","9">>

\* The characters of the model's texts in code-point order (what sorted() compares).
CharOrder ==
  <<"\n", " ", "#", "%", "&", "(", ")", "+", ",", "-", ".", "/">> \o DIGITS
    \o <<":", ";", "@">> \o UPPER \o <<"_">> \o LOWER \o <<"|", "MIDDOT", "BULLET">>

Range(s) == {s[i] : i \in 1..Len(s)}

Letters == Range(LOWER) \cup Range(UPPER)
Digit == Range(DIGITS)
\* str.isspace
Space == {" ", "\n"}
\* str.isalnum
Alnum == Letters \cup Digit
\* the regex class \w
WordChar == Alnum \cup {"_"}

\* str.lower, one character
ToLower == [c \in Range(CharOrder) |->
              IF c \in Range(UPPER) THEN LOWER[CHOOSE i \in 1..26 : UPPER[i] = c] ELSE c]

lower(text) == [i \in 1..Len(text) |-> ToLower[text[i]]]

\* The code point rank of a character.
Ord == [c \in Range(CharOrder) |-> CHOOSE i \in 1..Len(CharOrder) : CharOrder[i] = c]

------------------------------------------------------------------------------
(* Vocabulary tables *)

\* ROLE_KEYWORDS of the classic variant: role name -> keyword list, in source order.
ROLE_KEYWORDS_V1 ==
     "General / Fresher" :> << <<"p","r","o","j","e","c","t">>,
       <<"i","n","t","e","r","n","s","h","i","p">>,
       <<"t","e","a","m">>,
       <<"l","e","a","d">>,
       <<"c","o","m","m","u","n","i","c","a","t","i","o","n">>,
       <<"p","r","o","b","l","e","m"," ","s","o","l","v","i","n","g">>,
       <<"p","y","t","h","o","n">>,
       <<"e","x","c","e","l">>,
       <<"s","q","l">>,
       <<"p","r","e","s","e","n","t","a","t","i","o","n">>,
       <<"a","c","h","i","e","v","e","m","e","n","t">>,
       <<"a","w","a","r","d">>,
       <<"c","e","r","t","i","f","i","c","a","t","i","o","n">> >>
  @@ "Data Analyst" :> << <<"e","x","c","e","l">>,
       <<"s","q","l">>,
       <<"p","y","t","h","o","n">>,
       <<"p","a","n","d","a","s">>,
       <<"p","o","w","e","r"," ","b","i">>,
       <<"t","a","b","l","e","a","u">>,
       <<"d","a","x">>,
       <<"v","i","s","u","a","l","i","z","a","t","i","o","n">>,
       <<"d","a","s","h","b","o","a","r","d">>,
       <<"e","t","l">>,
       <<"s","t","a","t","i","s","t","i","c","s">>,
       <<"a","/","b"," ","t","e","s","t","i","n","g">>,
       <<"b","u","s","i","n","e","s","s"," ","i","n","t","e","l","l","i","g","e","n","c","e">>,
       <<"i","n","s","i","g","h","t","s">>,
       <<"k","p","i">>,
       <<"d","a","t","a"," ","c","l","e","a","n","i","n","g">> >>
  @@ "Business Analyst" :> << <<"r","e","q","u","i","r","e","m","e","n","t","s">>,
       <<"u","s","e","r"," ","s","t","o","r","i","e","s">>,
       <<"p","r","o","c","e","s","s"," ","m","a","p","p","i","n","g">>,
       <<"s","t","a","k","e","h","o","l","d","e","r">>,
       <<"j","i","r","a">>,
       <<"c","o","n","f","l","u","e","n","c","e">>,
       <<"b","p","m","n">>,
       <<"u","s","e"," ","c","a","s","e">>,
       <<"g","a","p"," ","a","n","a","l","y","s","i","s">>,
       <<"b","r","d">>,
       <<"f","r","d">>,
       <<"a","c","c","e","p","t","a","n","c","e"," ","c","r","i","t","e","r","i","a">>,
       <<"s","q","l">>,
       <<"r","e","p","o","r","t","i","n","g">>,
       <<"k","p","i">> >>
  @@ "Digital Marketing" :> << <<"s","e","o">>,
       <<"s","e","m">>,
       <<"g","o","o","g","l","e"," ","a","d","s">>,
       <<"m","e","t","a"," ","a","d","s">>,
       <<"c","o","n","t","e","n","t">>,
       <<"c","o","p","y","w","r","i","t","i","n","g">>,
       <<"e","m","a","i","l"," ","m","a","r","k","e","t","i","n","g">>,
       <<"c","r","m">>,
       <<"a","n","a","l","y","t","i","c","s">>,
       <<"u","t","m">>,
       <<"l","a","n","d","i","n","g"," ","p","a","g","e">>,
       <<"r","o","i">>,
       <<"c","p","c">>,
       <<"c","t","r">>,
       <<"c","a","m","p","a","i","g","n">>,
       <<"c","a","n","v","a">> >>
  @@ "Project Management" :> << <<"p","m","p">>,
       <<"a","g","i","l","e">>,
       <<"s","c","r","u","m">>,
       <<"k","a","n","b","a","n">>,
       <<"j","i","r","a">>,
       <<"r","i","s","k">>,
       <<"s","t","a","k","e","h","o","l","d","e","r">>,
       <<"t","i","m","e","l","i","n","e">>,
       <<"b","u","d","g","e","t">>,
       <<"m","i","l","e","s","t","o","n","e">>,
       <<"s","c","o","p","e">>,
       <<"r","e","s","o","u","r","c","e","s">>,
       <<"s","t","a","t","u","s"," ","r","e","p","o","r","t">>,
       <<"d","e","p","e","n","d","e","n","c","i","e","s">>,
       <<"d","e","l","i","v","e","r","a","b","l","e","s">> >>
  @@ "UI/UX Design" :> << <<"f","i","g","m","a">>,
       <<"w","i","r","e","f","r","a","m","e">>,
       <<"p","r","o","t","o","t","y","p","e">>,
       <<"u","s","e","r"," ","r","e","s","e","a","r","c","h">>,
       <<"u","s","a","b","i","l","i","t","y">>,
       <<"i","n","t","e","r","a","c","t","i","o","n"," ","d","e","s","i","g","n">>,
       <<"u","i"," ","k","i","t">>,
       <<"p","e","r","s","o","n","a">>,
       <<"j","o","u","r","n","e","y"," ","m","a","p">>,
       <<"d","e","s","i","g","n"," ","s","y","s","t","e","m">>,
       <<"a","c","c","e","s","s","i","b","i","l","i","t","y">>,
       <<"h","e","u","r","i","s","t","i","c","s">>,
       <<"v","i","s","u","a","l"," ","d","e","s","i","g","n">> >>
  @@ "Software Developer" :> << <<"p","y","t","h","o","n">>,
       <<"j","a","v","a">>,
       <<"j","a","v","a","s","c","r","i","p","t">>,
       <<"r","e","a","c","t">>,
       <<"n","o","d","e">>,
       <<"a","p","i">>,
       <<"m","i","c","r","o","s","e","r","v","i","c","e","s">>,
       <<"d","o","c","k","e","r">>,
       <<"g","i","t">>,
       <<"t","e","s","t","i","n","g">>,
       <<"c","i","/","c","d">>,
       <<"d","e","s","i","g","n"," ","p","a","t","t","e","r","n","s">>,
       <<"o","o","p">>,
       <<"a","l","g","o","r","i","t","h","m">>,
       <<"d","a","t","a"," ","s","t","r","u","c","t","u","r","e","s">> >>

\* ACTION_VERBS of the classic variant ("designed" is listed twice in the source).
ACTION_VERBS_V1 ==
  << <<"l","e","d">>,
     <<"b","u","i","l","t">>,
     <<"c","r","e","a","t","e","d">>,
     <<"d","e","v","e","l","o","p","e","d">>,
     <<"d","e","s","i","g","n","e","d">>,
     <<"l","a","u","n","c","h","e","d">>,
     <<"o","p","t","i","m","i","z","e","d">>,
     <<"r","e","d","u","c","e","d">>,
     <<"i","n","c","r","e","a","s","e","d">>,
     <<"i","m","p","r","o","v","e","d">>,
     <<"a","u","t","o","m","a","t","e","d">>,
     <<"m","i","g","r","a","t","e","d">>,
     <<"e","n","h","a","n","c","e","d">>,
     <<"a","n","a","l","y","s","e","d">>,
     <<"a","n","a","l","y","z","e","d">>,
     <<"i","m","p","l","e","m","e","n","t","e","d">>,
     <<"m","a","n","a","g","e","d">>,
     <<"d","e","l","i","v","e","r","e","d">>,
     <<"d","e","p","l","o","y","e","d">>,
     <<"s","t","r","e","a","m","l","i","n","e","d">>,
     <<"o","r","c","h","e","s","t","r","a","t","e","d">>,
     <<"s","c","a","l","e","d">>,
     <<"d","e","s","i","g","n","e","d">>,
     <<"a","r","c","h","i","t","e","c","t","e","d">>,
     <<"s","p","e","a","r","h","e","a","d","e","d">> >>

\* ACTION_VERBS of v1.3 of the classic variant: each verb once.
ACTION_VERBS_V13 ==
  << <<"l","e","d">>,
     <<"b","u","i","l","t">>,
     <<"c","r","e","a","t","e","d">>,
     <<"d","e","v","e","l","o","p","e","d">>,
     <<"d","e","s","i","g","n","e","d">>,
     <<"l","a","u","n","c","h","e","d">>,
     <<"o","p","t","i","m","i","z","e","d">>,
     <<"r","e","d","u","c","e","d">>,
     <<"i","n","c","r","e","a","s","e","d">>,
     <<"i","m","p","r","o","v","e","d">>,
     <<"a","u","t","o","m","a","t","e","d">>,
     <<"m","i","g","r","a","t","e","d">>,
     <<"e","n","h","a","n","c","e","d">>,
     <<"a","n","a","l","y","s","e","d">>,
     <<"a","n","a","l","y","z","e","d">>,
     <<"i","m","p","l","e","m","e","n","t","e","d">>,
     <<"m","a","n","a","g","e","d">>,
     <<"d","e","l","i","v","e","r","e","d">>,
     <<"d","e","p","l","o","y","e","d">>,
     <<"s","t","r","e","a","m","l","i","n","e","d">>,
     <<"o","r","c","h","e","s","t","r","a","t","e","d">>,
     <<"s","c","a","l","e","d">>,
     <<"a","r","c","h","i","t","e","c","t","e","d">>,
     <<"s","p","e","a","r","h","e","a","d","e","d">> >>

\* CERT_WORDS of the classic variant.
CERT_WORDS_V1 ==
  << <<"c","e","r","t","i","f","i","e","d">>,
     <<"c","e","r","t","i","f","i","c","a","t","e">>,
     <<"c","o","u","r","s","e","r","a">>,
     <<"u","d","e","m","y">>,
     <<"p","l","-","3","0","0">>,
     <<"p","m","p">>,
     <<"s","i","x"," ","s","i","g","m","a">>,
     <<"i","t","i","l">>,
     <<"a","w","s">>,
     <<"a","z","u","r","e">>,
     <<"g","c","p">>,
     <<"g","o","o","g","l","e"," ","a","n","a","l","y","t","i","c","s">>,
     <<"m","e","t","a">>,
     <<"h","u","b","s","p","o","t">> >>

\* EDU_WORDS of the classic variant.
EDU_WORDS_V1 ==
  << <<"b",".","e">>,
     <<"b","t","e","c","h">>,
     <<"b",".","t","e","c","h">>,
     <<"b","s","c">>,
     <<"b",".","s","c">>,
     <<"m","s","c">>,
     <<"m",".","s","c">>,
     <<"m","c","a">>,
     <<"b","c","a">>,
     <<"m","b","a">>,
     <<"b","a","c","h","e","l","o","r">>,
     <<"m","a","s","t","e","r">>,
     <<"d","e","g","r","e","e">>,
     <<"c","o","l","l","e","g","e">>,
     <<"u","n","i","v","e","r","s","i","t","y">> >>

\* SECTION_HINTS of the classic variant, in dict (insertion) order.
SECTION_HINTS ==
  << [sec |-> "Summary/Objectives", aliases |-> << <<"s","u","m","m","a","r","y">>, <<"o","b","j","e","c","t","i","v","e">>, <<"p","r","o","f","i","l","e">> >>],
     [sec |-> "Experience", aliases |-> << <<"e","x","p","e","r","i","e","n","c","e">>, <<"w","o","r","k"," ","e","x","p","e","r","i","e","n","c","e">>, <<"p","r","o","f","e","s","s","i","o","n","a","l"," ","e","x","p","e","r","i","e","n","c","e">>, <<"e","m","p","l","o","y","m","e","n","t">> >>],
     [sec |-> "Projects", aliases |-> << <<"p","r","o","j","e","c","t","s">>, <<"p","r","o","j","e","c","t"," ","e","x","p","e","r","i","e","n","c","e">> >>],
     [sec |-> "Education", aliases |-> << <<"e","d","u","c","a","t","i","o","n">>, <<"a","c","a","d","e","m","i","c","s">> >>],
     [sec |-> "Skills", aliases |-> << <<"s","k","i","l","l","s">>, <<"t","e","c","h","n","i","c","a","l"," ","s","k","i","l","l","s">> >>],
     [sec |-> "Certifications", aliases |-> << <<"c","e","r","t","i","f","i","c","a","t","i","o","n","s">>, <<"c","e","r","t","i","f","i","c","a","t","e","s">>, <<"l","i","c","e","n","s","e","s">> >>],
     [sec |-> "Achievements", aliases |-> << <<"a","w","a","r","d","s">>, <<"a","c","h","i","e","v","e","m","e","n","t","s">>, <<"a","c","c","o","m","p","l","i","s","h","m","e","n","t","s">> >>] >>

\* ROLE_KEYWORDS of the research-backed variant.
ROLE_KEYWORDS_V2 ==
     "Data Analyst" :> << <<"e","x","c","e","l">>,
       <<"s","q","l">>,
       <<"p","y","t","h","o","n">>,
       <<"p","a","n","d","a","s">>,
       <<"p","o","w","e","r"," ","b","i">>,
       <<"t","a","b","l","e","a","u">>,
       <<"d","a","x">>,
       <<"v","i","s","u","a","l","i","z","a","t","i","o","n">>,
       <<"d","a","s","h","b","o","a","r","d">>,
       <<"e","t","l">>,
       <<"s","t","a","t","i","s","t","i","c","s">>,
       <<"a","/","b"," ","t","e","s","t","i","n","g">>,
       <<"b","u","s","i","n","e","s","s"," ","i","n","t","e","l","l","i","g","e","n","c","e">>,
       <<"i","n","s","i","g","h","t","s">>,
       <<"k","p","i">>,
       <<"d","a","t","a"," ","c","l","e","a","n","i","n","g">>,
       <<"d","a","t","a"," ","m","o","d","e","l">>,
       <<"s","t","o","r","y","t","e","l","l","i","n","g">> >>
  @@ "Business Analyst" :> << <<"r","e","q","u","i","r","e","m","e","n","t","s">>,
       <<"u","s","e","r"," ","s","t","o","r","i","e","s">>,
       <<"p","r","o","c","e","s","s"," ","m","a","p","p","i","n","g">>,
       <<"s","t","a","k","e","h","o","l","d","e","r">>,
       <<"j","i","r","a">>,
       <<"c","o","n","f","l","u","e","n","c","e">>,
       <<"b","p","m","n">>,
       <<"u","s","e"," ","c","a","s","e">>,
       <<"g","a","p"," ","a","n","a","l","y","s","i","s">>,
       <<"b","r","d">>,
       <<"f","r","d">>,
       <<"a","c","c","e","p","t","a","n","c","e"," ","c","r","i","t","e","r","i","a">>,
       <<"s","q","l">>,
       <<"r","e","p","o","r","t","i","n","g">>,
       <<"k","p","i">>,
       <<"a","s","-","i","s">>,
       <<"t","o","-","b","e">>,
       <<"r","o","a","d","m","a","p">> >>
  @@ "Digital Marketing" :> << <<"s","e","o">>,
       <<"s","e","m">>,
       <<"g","o","o","g","l","e"," ","a","d","s">>,
       <<"m","e","t","a"," ","a","d","s">>,
       <<"c","o","n","t","e","n","t">>,
       <<"c","o","p","y","w","r","i","t","i","n","g">>,
       <<"e","m","a","i","l"," ","m","a","r","k","e","t","i","n","g">>,
       <<"c","r","m">>,
       <<"a","n","a","l","y","t","i","c","s">>,
       <<"u","t","m">>,
       <<"l","a","n","d","i","n","g"," ","p","a","g","e">>,
       <<"r","o","i">>,
       <<"c","p","c">>,
       <<"c","t","r">>,
       <<"c","a","m","p","a","i","g","n">>,
       <<"c","a","n","v","a">>,
       <<"k","e","y","w","o","r","d"," ","r","e","s","e","a","r","c","h">>,
       <<"r","e","m","a","r","k","e","t","i","n","g">> >>
  @@ "Project Management" :> << <<"p","m","p">>,
       <<"a","g","i","l","e">>,
       <<"s","c","r","u","m">>,
       <<"k","a","n","b","a","n">>,
       <<"j","i","r","a">>,
       <<"r","i","s","k">>,
       <<"s","t","a","k","e","h","o","l","d","e","r">>,
       <<"t","i","m","e","l","i","n","e">>,
       <<"b","u","d","g","e","t">>,
       <<"m","i","l","e","s","t","o","n","e">>,
       <<"s","c","o","p","e">>,
       <<"r","e","s","o","u","r","c","e","s">>,
       <<"s","t","a","t","u","s"," ","r","e","p","o","r","t">>,
       <<"d","e","p","e","n","d","e","n","c","i","e","s">>,
       <<"d","e","l","i","v","e","r","a","b","l","e","s">>,
       <<"b","u","r","n","d","o","w","n">>,
       <<"r","e","t","r","o","s","p","e","c","t","i","v","e">> >>
  @@ "UI/UX Design" :> << <<"f","i","g","m","a">>,
       <<"w","i","r","e","f","r","a","m","e">>,
       <<"p","r","o","t","o","t","y","p","e">>,
       <<"u","s","e","r"," ","r","e","s","e","a","r","c","h">>,
       <<"u","s","a","b","i","l","i","t","y">>,
       <<"i","n","t","e","r","a","c","t","i","o","n"," ","d","e","s","i","g","n">>,
       <<"u","i"," ","k","i","t">>,
       <<"p","e","r","s","o","n","a">>,
       <<"j","o","u","r","n","e","y"," ","m","a","p">>,
       <<"d","e","s","i","g","n"," ","s","y","s","t","e","m">>,
       <<"a","c","c","e","s","s","i","b","i","l","i","t","y">>,
       <<"h","e","u","r","i","s","t","i","c","s">>,
       <<"v","i","s","u","a","l"," ","d","e","s","i","g","n">>,
       <<"h","i","f","i">>,
       <<"l","o","f","i">> >>
  @@ "General / Fresher" :> << <<"p","r","o","j","e","c","t">>,
       <<"i","n","t","e","r","n","s","h","i","p">>,
       <<"t","e","a","m">>,
       <<"l","e","a","d">>,
       <<"c","o","m","m","u","n","i","c","a","t","i","o","n">>,
       <<"p","r","o","b","l","e","m"," ","s","o","l","v","i","n","g">>,
       <<"p","y","t","h","o","n">>,
       <<"e","x","c","e","l">>,
       <<"s","q","l">>,
       <<"p","r","e","s","e","n","t","a","t","i","o","n">>,
       <<"a","c","h","i","e","v","e","m","e","n","t">>,
       <<"a","w","a","r","d">>,
       <<"c","e","r","t","i","f","i","c","a","t","i","o","n">> >>

\* ACTION_VERBS of the research-backed variant.
ACTION_VERBS_V2 ==
  << <<"l","e","d">>,
     <<"b","u","i","l","t">>,
     <<"c","r","e","a","t","e","d">>,
     <<"d","e","v","e","l","o","p","e","d">>,
     <<"d","e","s","i","g","n","e","d">>,
     <<"l","a","u","n","c","h","e","d">>,
     <<"o","p","t","i","m","i","z","e","d">>,
     <<"r","e","d","u","c","e","d">>,
     <<"i","n","c","r","e","a","s","e","d">>,
     <<"i","m","p","r","o","v","e","d">>,
     <<"a","u","t","o","m","a","t","e","d">>,
     <<"m","i","g","r","a","t","e","d">>,
     <<"e","n","h","a","n","c","e","d">>,
     <<"a","n","a","l","y","z","e","d">>,
     <<"i","m","p","l","e","m","e","n","t","e","d">>,
     <<"m","a","n","a","g","e","d">>,
     <<"d","e","l","i","v","e","r","e","d">>,
     <<"d","e","p","l","o","y","e","d">>,
     <<"s","t","r","e","a","m","l","i","n","e","d">>,
     <<"o","r","c","h","e","s","t","r","a","t","e","d">>,
     <<"s","c","a","l","e","d">>,
     <<"a","r","c","h","i","t","e","c","t","e","d">>,
     <<"s","p","e","a","r","h","e","a","d","e","d">>,
     <<"b","o","o","s","t","e","d">>,
     <<"t","r","a","n","s","f","o","r","m","e","d">> >>

\* CERT_WORDS of the research-backed variant.
CERT_WORDS_V2 ==
  << <<"c","e","r","t","i","f","i","e","d">>,
     <<"c","e","r","t","i","f","i","c","a","t","e">>,
     <<"p","l","-","3","0","0">>,
     <<"p","m","p">>,
     <<"s","i","x"," ","s","i","g","m","a">>,
     <<"i","t","i","l">>,
     <<"a","w","s">>,
     <<"a","z","u","r","e">>,
     <<"g","c","p">>,
     <<"g","o","o","g","l","e"," ","a","n","a","l","y","t","i","c","s">>,
     <<"m","e","t","a">>,
     <<"h","u","b","s","p","o","t">>,
     <<"s","c","r","u","m">> >>

\* EDU_WORDS of the research-backed variant.
EDU_WORDS_V2 ==
  << <<"b",".","e">>,
     <<"b","t","e","c","h">>,
     <<"b",".","t","e","c","h">>,
     <<"b","s","c">>,
     <<"b",".","s","c">>,
     <<"m","s","c">>,
     <<"m",".","s","c">>,
     <<"m","c","a">>,
     <<"b","c","a">>,
     <<"m","b","a">>,
     <<"b","a","c","h","e","l","o","r">>,
     <<"m","a","s","t","e","r">>,
     <<"d","e","g","r","e","e">>,
     <<"c","o","l","l","e","g","e">>,
     <<"u","n","i","v","e","r","s","i","t","y">> >>

\* The section catalog written inline in the research-backed score_resume, in dict order.
SECTIONS_V2 ==
  << [sec |-> "Summary/Objectives", aliases |-> << <<"s","u","m","m","a","r","y">>, <<"o","b","j","e","c","t","i","v","e">>, <<"p","r","o","f","i","l","e">> >>],
     [sec |-> "Experience", aliases |-> << <<"e","x","p","e","r","i","e","n","c","e">>, <<"w","o","r","k"," ","e","x","p","e","r","i","e","n","c","e">>, <<"p","r","o","f","e","s","s","i","o","n","a","l"," ","e","x","p","e","r","i","e","n","c","e">>, <<"e","m","p","l","o","y","m","e","n","t">> >>],
     [sec |-> "Education", aliases |-> << <<"e","d","u","c","a","t","i","o","n">>, <<"a","c","a","d","e","m","i","c","s">>, <<"u","n","i","v","e","r","s","i","t","y">>, <<"c","o","l","l","e","g","e">> >>],
     [sec |-> "Skills", aliases |-> << <<"s","k","i","l","l","s">>, <<"t","e","c","h","n","i","c","a","l"," ","s","k","i","l","l","s">> >>],
     [sec |-> "Certifications", aliases |-> << <<"c","e","r","t","i","f","i","c","a","t","i","o","n","s">>, <<"l","i","c","e","n","s","e","s">>, <<"c","e","r","t","i","f","i","c","a","t","e","s">> >>] >>

------------------------------------------------------------------------------
(* String helpers *)

\* Python's  w in t  on strings: substring containment.
In(w, t) ==
  \E i \in 1..(Len(t) - Len(w) + 1) : \A j \in 1..Len(w) : t[i + j - 1] = w[j]

\* contains_any / has_any: the words of the list that occur in the lower-cased
\* text, in list order, one entry per list entry (a word listed twice is kept twice).
RECURSIVE FilterIn(_, _)
FilterIn(words, tl) ==
  IF words = <<>> THEN <<>>
  ELSE (IF In(Head(words), tl) THEN <<Head(words)>> ELSE <<>>) \o FilterIn(Tail(words), tl)

contains_any(text, words) == FilterIn(words, lower(text))

\* len(text.split()): the number of maximal runs of non-whitespace characters.
WordCount(t) ==
  Cardinality({i \in 1..Len(t) : t[i] \notin Space /\ (i = 1 \/ t[i - 1] \in Space)})

\* A \b of the regex at the gap before position i (1..Len(t)+1).
IsWordAt(t, i) == i >= 1 /\ i <= Len(t) /\ t[i] \in WordChar
Boundary(t, i) == IsWordAt(t, i - 1) # IsWordAt(t, i)

\* All of t[a..b] lie in the set cls (true of an empty range).
AllIn(t, a, b, cls) == \A k \in a..b : t[k] \in cls

\* count_regex(text, r"\b\d+[%k]?\b"): the number of non-overlapping matches.
\* A match starts at a boundary before a digit, so at the start of a run of digits
\* that follows a non-word character, and takes the whole run (a shorter \d+ is
\* followed by a digit, neither a boundary nor % or k); it ends after the run when a
\* boundary is there, or after one more % or k when a boundary follows that.
NumMatchAt(t, i) ==
  /\ t[i] \in Digit
  /\ Boundary(t, i)
  /\ LET e == CHOOSE k \in i..Len(t) : AllIn(t, i, k, Digit) /\ (k = Len(t) \/ t[k + 1] \notin Digit)
     IN  \/ Boundary(t, e + 1)
         \/ e < Len(t) /\ t[e + 1] \in {"%", "k", "K"} /\ Boundary(t, e + 2)

CountNumbers(t) == Cardinality({i \in 1..Len(t) : NumMatchAt(t, i)})

\* re.search(r"[A-Za-z0-9._%+-]+@[A-Za-z0-9.-]+\.[A-Za-z]{2,}", t)
EmailLocal == Alnum \cup {".", "_", "%", "+", "-"}
EmailDomain == Alnum \cup {".", "-"}
HasEmail(t) ==
  \E a \in 2..Len(t) :
    /\ t[a] = "@"
    /\ t[a - 1] \in EmailLocal
    /\ \E d \in (a + 2)..(Len(t) - 2) :
         /\ t[d] = "."
         /\ AllIn(t, a + 1, d - 1, EmailDomain)
         /\ t[d + 1] \in Letters
         /\ t[d + 2] \in Letters

\* re.search(r"\b(\+?\d{1,3}[-\s]?)?\d{10}\b", t): a match starts at s, carries an
\* optional group of  plus (0 or 1 character), n country-code digits (1..3) and sep
\* (0 or 1 character of - or whitespace), then exactly ten digits and a boundary.
PhoneAt(t, s, withGroup, plus, n, sep) ==
  LET g == IF withGroup THEN plus + n + sep ELSE 0
      d == s + g
  IN  /\ Boundary(t, s)
      /\ d + 9 <= Len(t)
      /\ withGroup =>
           /\ plus = 1 => t[s] = "+"
           /\ AllIn(t, s + plus, s + plus + n - 1, Digit)
           /\ sep = 1 => t[s + plus + n] \in ({"-"} \cup Space)
      /\ AllIn(t, d, d + 9, Digit)
      /\ Boundary(t, d + 10)

HasPhone(t) ==
  \E s \in 1..Len(t) :
    \/ PhoneAt(t, s, FALSE, 0, 0, 0)
    \/ \E plus \in 0..1, n \in 1..3, sep \in 0..1 : PhoneAt(t, s, TRUE, plus, n, sep)

\* count_regex(text, r"(\n[-BULLET MIDDOT])|BULLET"): a newline followed by a marker is
\* one match (it consumes the marker); any other BULLET is one match.
CountBullets(t) ==
  Cardinality({i \in 1..Len(t) :
     \/ t[i] = "\n" /\ i < Len(t) /\ t[i + 1] \in {"-", "BULLET", "MIDDOT"}
     \/ t[i] = "BULLET" /\ ~(i > 1 /\ t[i - 1] = "\n")})

\* The characters that count as special: neither alphanumeric, nor whitespace, nor
\* one of ".,;:-()/&+%".
AllowedPunct == {".", ",", ";", ":", "-", "(", ")", "/", "&", "+", "%"}
CountSpecials(t) ==
  Cardinality({i \in 1..Len(t) : t[i] \notin Alnum \cup Space \cup AllowedPunct})

------------------------------------------------------------------------------
(* Numbers *)

(* Scores are kept in hundredths of a point.  The classic variant adds floats    *)
(* that are not decimal tenths (the Formatting penalty has two decimals) and     *)
(* rounds the sum, so the direction of round() at a decimal tie depends on the   *)
(* binary value: a binary64 value v with 0 <= v < 128 is modelled exactly as the *)
(* integer v * 2^52, written in three limbs <<l1, l2, l3>> of 20 bits            *)
(* (v * 2^52 = l1 + l2 * 2^20 + l3 * 2^40).                                      *)

Max(a, b) == IF a >= b THEN a ELSE b
Min(a, b) == IF a <= b THEN a ELSE b
Abs(a) == IF a >= 0 THEN a ELSE -a

Limb == 1048576
\* 2^12: the third limb of 1.0
OneHi == 4096

RECURSIVE Pow2(_)
Pow2(e) == IF e = 0 THEN 1 ELSE 2 * Pow2(e - 1)

F64Norm(x) ==
  LET c1 == x[1] \div Limb
      c2 == (x[2] + c1) \div Limb
  IN  <<x[1] % Limb, (x[2] + c1) % Limb, x[3] + c2>>

F64OfInt(n) == <<0, 0, n * OneHi>>

\* The exact sum, and the exact difference x - y for x >= y.
F64ExactAdd(x, y) == F64Norm(<<x[1] + y[1], x[2] + y[2], x[3] + y[3]>>)
F64ExactSub(x, y) ==
  LET b1 == IF x[1] < y[1] THEN 1 ELSE 0
      b2 == IF x[2] - b1 < y[2] THEN 1 ELSE 0
  IN  <<x[1] - y[1] + b1 * Limb, x[2] - b1 - y[2] + b2 * Limb, x[3] - b2 - y[3]>>

F64Less(x, y) ==
  \/ x[3] < y[3]
  \/ x[3] = y[3] /\ x[2] < y[2]
  \/ x[3] = y[3] /\ x[2] = y[2] /\ x[1] < y[1]

\* Round-to-nearest-even of the exact value q + r / m (0 <= r < m, q in limbs) to a
\* binary64: to a multiple of the ulp 2^e of its binade [2^e, 2^(e+1)).  Below 1.0
\* every multiple of 2^-52 is a binary64 already.
F64Round(q, r, m) ==
  IF q[3] < OneHi THEN q
  ELSE LET e == CHOOSE k \in 0..18 : Pow2(k) <= q[3] \div OneHi /\ q[3] \div OneHi < Pow2(k + 1)
           u == Pow2(e)
           low == q[1] % u
           down == <<q[1] - low, q[2], q[3]>>
           up == F64ExactAdd(down, <<u, 0, 0>>)
           c == 2 * (low * m + r)
       IN  IF c < u * m THEN down
           ELSE IF c > u * m THEN up
           ELSE IF (q[1] \div u) % 2 = 0 THEN down ELSE up

\* The float x + y and the float x - y (x >= y).
F64Add(x, y) == F64Round(F64ExactAdd(x, y), 0, 1)
F64Sub(x, y) == F64Round(F64ExactSub(x, y), 0, 1)

\* The float n / m for integers n >= 0 and 0 < m <= 100: Python's true division,
\* and the float a decimal literal or a round() to decimals denotes.
F64Div(n, m) ==
  LET q3 == (n * OneHi) \div m
      t2 == ((n * OneHi) % m) * Limb
      q2 == t2 \div m
      t1 == (t2 % m) * Limb
  IN  F64Round(F64Norm(<<t1 \div m, q2, q3>>), t1 % m, m)

\* round(x, 1) of a float, in tenths: the decimal tenth nearest to the exact binary
\* value, a tie (the value is exactly k + 0.5 tenths) going to the even tenth.
F64RoundTenths(x) ==
  LET y == F64Norm(<<10 * x[1], 10 * x[2], 10 * x[3]>>)
      k == y[3] \div OneHi
      m3 == y[3] % OneHi
      half == OneHi \div 2
  IN  IF m3 < half THEN k
      ELSE IF m3 > half \/ y[2] > 0 \/ y[1] > 0 THEN k + 1
      ELSE IF k % 2 = 0 THEN k ELSE k + 1

\* round(x, 1) in hundredths, and the float of a value given in hundredths.
F64Round1(x) == 10 * F64RoundTenths(x)
F64OfHundredths(h) == F64Div(h, 100)

\* round(num / den, 1) in hundredths for exact num / den >= 0 that is no tie
\* (a ratio with an odd denominator, or a decimal tenth): half to even.
RoundRatio1(num, den) ==
  LET q == (10 * num) \div den
      r2 == 2 * ((10 * num) % den)
  IN  IF r2 < den THEN 10 * q
      ELSE IF r2 > den THEN 10 * (q + 1)
      ELSE IF q % 2 = 0 THEN 10 * q ELSE 10 * (q + 1)

------------------------------------------------------------------------------
(* Suggestions *)

\* A suggestion string: its fixed wording (kind) and what is formatted into it
\* (the section or role name, the missing keywords).
Sug(kind) == [kind |-> kind, name |-> "", missing |-> <<>>]
SugSection(sec) == [kind |-> "add_section", name |-> sec, missing |-> <<>>]
SugKeywords(role, missing) == [kind |-> "keywords", name |-> role, missing |-> missing]

\* a < b as Python compares strings: by code point, a proper prefix first.
LexLess(a, b) ==
  \E k \in 1..(Min(Len(a), Len(b)) + 1) :
    /\ \A j \in 1..(k - 1) : a[j] = b[j]
    /\ IF k > Len(a) THEN k <= Len(b)
       ELSE k <= Len(b) /\ Ord[a[k]] < Ord[b[k]]

\* sorted(S)[:n]
RECURSIVE SortedPrefix(_, _)
SortedPrefix(S, n) ==
  IF S = {} \/ n = 0 THEN <<>>
  ELSE LET m == CHOOSE x \in S : \A y \in S \ {x} : LexLess(x, y)
       IN  <<m>> \o SortedPrefix(S \ {m}, n - 1)

\* The loop  for s in suggestions: if s not in out: out.append(s)
RECURSIVE Dedup(_, _)
Dedup(suggestions, out) ==
  IF suggestions = <<>> THEN out
  ELSE Dedup(Tail(suggestions),
             IF Head(suggestions) \in Range(out) THEN out ELSE Append(out, Head(suggestions)))

\* Slice without the cut: the whole list.
Slice_NoCut(s, n) == s

\* out[:n]
Slice(s, n) == SubSeq(s, 1, Min(n, Len(s)))

\* dict.get(role, dict["General / Fresher"])
RoleWords(table, role) ==
  IF role \in DOMAIN table THEN table[role] ELSE table["General / Fresher"]

------------------------------------------------------------------------------
(* score_resume, classic variant *)

\* k.strip(): leading and trailing whitespace removed.
Strip(s) ==
  IF \A i \in 1..Len(s) : s[i] \in Space THEN <<>>
  ELSE LET a == CHOOSE i \in 1..Len(s) : s[i] \notin Space /\ \A j \in 1..(i - 1) : s[j] \in Space
           b == CHOOSE i \in 1..Len(s) : s[i] \notin Space /\ \A j \in (i + 1)..Len(s) : s[j] \in Space
       IN  SubSeq(s, a, b)

\* s.split(","): the pieces between commas, empty pieces included.
RECURSIVE SplitComma(_)
SplitComma(s) ==
  IF \A i \in 1..Len(s) : s[i] # "," THEN <<s>>
  ELSE LET c == CHOOSE i \in 1..Len(s) : s[i] = "," /\ \A j \in 1..(i - 1) : s[j] # ","
       IN  <<SubSeq(s, 1, c - 1)>> \o SplitComma(SubSeq(s, c + 1, Len(s)))

\* [k.strip().lower() for k in extra_keywords.split(",") if k.strip()]
RECURSIVE ExtraList(_)
ExtraList(pieces) ==
  IF pieces = <<>> THEN <<>>
  ELSE (IF Strip(Head(pieces)) # <<>> THEN <<lower(Strip(Head(pieces)))>> ELSE <<>>)
         \o ExtraList(Tail(pieces))

\* The local list role_words: a copy of the role's list, the extra keywords appended.
\* extra_keywords is None or a string; None and "" are both falsy.
RoleWordsV1(table, target_role, extra_keywords) ==
  RoleWords(table, target_role)
    \o (IF extra_keywords = <<>> THEN <<>> ELSE ExtraList(SplitComma(extra_keywords)))

\* SectionHit looking at the first alias of the section only.
SectionHit_FirstAlias(section, tl) == In(section.aliases[1], tl)

\* The structure loop: which catalog sections have an alias in the text.
SectionHit(section, tl) == \E i \in 1..Len(section.aliases) : In(section.aliases[i], tl)

RECURSIVE MissingSections(_, _)
MissingSections(catalog, tl) ==
  IF catalog = <<>> THEN <<>>
  ELSE (IF SectionHit(Head(catalog), tl) THEN <<>> ELSE <<SugSection(Head(catalog).sec)>>)
         \o MissingSections(Tail(catalog), tl)

HitCount(catalog, tl) == Cardinality({i \in 1..Len(catalog) : SectionHit(catalog[i], tl)})

\* structure_points += 20/len(SECTION_HINTS) per section; round(structure_points, 1)
StructurePointsV1(tl) == RoundRatio1(HitCount(SECTION_HINTS, tl) * 20, Len(SECTION_HINTS))

\* SpecialRatioLow with the ratio taken over len(text) itself.
SpecialRatioLow_NoGuard(text) == 100 * CountSpecials(text) < 5 * Len(text)

\* special_ratio < 0.05, the ratio being specials / max(len(text), 1)
SpecialRatioLow(text) == 100 * CountSpecials(text) < 5 * Max(Len(text), 1)

\* ImpactPointsV1 without its caps.
ImpactPointsV1_NoCap(nums, action_uses) == 1000 + nums * 200 + action_uses * 150

\* min(10 + min(nums, 5) * 2 + min(action_uses, 5) * 1.5, 20), in hundredths
ImpactPointsV1(nums, action_uses) ==
  Min(1000 + Min(nums, 5) * 200 + Min(action_uses, 5) * 150, 2000)

\* AtsSuggestionsV1 without the email suggestion.
AtsSuggestionsV1_NoEmail(email_ok, phone_ok) ==
  IF ~phone_ok THEN <<Sug("phone")>> ELSE <<>>

\* The two ATS suggestions of the classic variant.
AtsSuggestionsV1(email_ok, phone_ok) ==
  (IF ~email_ok THEN <<Sug("email")>> ELSE <<>>)
    \o (IF ~phone_ok THEN <<Sug("phone")>> ELSE <<>>)

\* EmittedV1 with the ATS suggestions ahead of the education ones.
EmittedV1_AtsFirst(sections, keywords, impact, education, ats, concise) ==
  sections \o keywords \o impact \o ats \o education \o concise

\* The list suggestions at the return: what each stage appended, in the order the
\* stages run.
EmittedV1(sections, keywords, impact, education, ats, concise) ==
  sections \o keywords \o impact \o education \o ats \o concise

\* TableAfterV1 with role_words bound to the table's own list (no .copy()), so
\* that role_words += extras extends the list stored in the table.
TableAfterV1_NoCopy(table, target_role, extra_keywords) ==
  LET key == IF target_role \in DOMAIN table THEN target_role ELSE "General / Fresher"
  IN  [table EXCEPT ![key] = RoleWordsV1(table, target_role, extra_keywords)]

\* The module-level table ROLE_KEYWORDS after a call: ROLE_KEYWORDS.get(...).copy()
\* makes role_words a fresh list, so role_words += extras leaves the table alone.
TableAfterV1(table, target_role, extra_keywords) == table

\* found_role = contains_any(tl, role_words): one entry per listed word that occurs.
FoundRoleV1(table, text, target_role, extra_keywords) ==
  FilterIn(RoleWordsV1(table, target_role, extra_keywords), lower(text))

\* KwPointsV1 with the rate applied to the words that were not found.
KwPointsV1_Shortfall(found_count) == Min(Max(12 - found_count, 0) * 250, 3000)

\* kw_points = min(len(found_role) * (30/12), 30), in hundredths
KwPointsV1(found_count) == Min(found_count * 250, 3000)

\* KeywordSuggestionV1 with the missing words cut before they are sorted.
KeywordSuggestionV1_CutFirst(target_role, role_words, found_role) ==
  IF Len(found_role) < 8
  THEN <<SugKeywords(target_role,
                     SortedPrefix(Range(SubSeq(role_words, 1, Min(8, Len(role_words))))
                                    \ Range(found_role), 8))>>
  ELSE <<>>

\* if len(found_role) < 8: missing = sorted(set(role_words) - set(found_role))[:8]
KeywordSuggestionV1(target_role, role_words, found_role) ==
  IF Len(found_role) < 8
  THEN <<SugKeywords(target_role, SortedPrefix(Range(role_words) \ Range(found_role), 8))>>
  ELSE <<>>

\* action_uses = len(contains_any(tl, ACTION_VERBS)): one per listed verb that occurs.
ActionUses(verbs, tl) == Len(FilterIn(verbs, tl))

\* The two impact suggestions, each under its own threshold.
ImpactSuggestions(nums, actions) ==
  (IF nums < 3 THEN <<Sug("quantify")>> ELSE <<>>)
    \o (IF actions < 3 THEN <<Sug("action_verbs")>> ELSE <<>>)

\* FmtPointsV1 with the ideal interval of the research-backed variant.
FmtPointsV1_Ideal300(word_count) ==
  LET penalty == F64Div(Abs(word_count - 600), 100)
  IN  IF 300 <= word_count /\ word_count <= 900 THEN F64OfInt(10)
      ELSE IF F64Less(F64OfInt(10), penalty) THEN F64OfInt(0)
      ELSE F64Sub(F64OfInt(10), penalty)

\* fmt_points: 10 inside 350..900, else max(0, 10 - abs(word_count-600)/100), a float
FmtPointsV1(word_count) ==
  LET penalty == F64Div(Abs(word_count - 600), 100)
  IN  IF 350 <= word_count /\ word_count <= 900 THEN F64OfInt(10)
      ELSE IF F64Less(F64OfInt(10), penalty) THEN F64OfInt(0)
      ELSE F64Sub(F64OfInt(10), penalty)

\* score_resume of the classic variant, for the list ACTION_VERBS of the module.
ScoreClassic(table, verbs, text, target_role, extra_keywords) ==
  LET tl == lower(text)
      word_count == WordCount(tl)
      \* 1) Structure (20)
      structure_points == StructurePointsV1(tl)
      s1 == MissingSections(SECTION_HINTS, tl)
      \* 2) Keywords match (30)
      role_words == RoleWordsV1(table, target_role, extra_keywords)
      found_role == FoundRoleV1(table, text, target_role, extra_keywords)
      kw_points == KwPointsV1(Len(found_role))
      s2 == KeywordSuggestionV1(target_role, role_words, found_role)
      \* 3) Impact & Achievements (20)
      nums == CountNumbers(tl)
      action_uses == ActionUses(verbs, tl)
      impact_points == ImpactPointsV1(nums, action_uses)
      s3 == ImpactSuggestions(nums, action_uses)
      \* 4) Education/Certifications (10)
      edu_hits == Len(FilterIn(EDU_WORDS_V1, tl))
      cert_hits == Len(FilterIn(CERT_WORDS_V1, tl))
      edu_points == Min(edu_hits * 200 + Min(cert_hits, 3) * 200, 1000)
      s4 == (IF edu_hits = 0 THEN <<Sug("education")>> ELSE <<>>)
              \o (IF cert_hits = 0 THEN <<Sug("certifications")>> ELSE <<>>)
      \* 5) ATS Compliance (10)
      email_ok == HasEmail(tl)
      phone_ok == HasPhone(tl)
      bullets == CountBullets(text)
      ats_points == (IF email_ok THEN 300 ELSE 0) + (IF phone_ok THEN 300 ELSE 0)
                      + (IF bullets >= 5 THEN 200 ELSE 0)
                      + (IF SpecialRatioLow(text) THEN 200 ELSE 0)
      s5 == AtsSuggestionsV1(email_ok, phone_ok)
      \* 6) Formatting / Length (10)
      fmt_ok == 350 <= word_count /\ word_count <= 900
      fmt_points == FmtPointsV1(word_count)
      s6 == IF fmt_ok THEN <<>> ELSE <<Sug("concise")>>
      suggestions == EmittedV1(s1, s2, s3, s4, s5, s6)
  IN  \* each sub-score is bound to its value before the float arithmetic
      CHOOSE result \in
        { LET \* structure + kw + impact + edu + ats + fmt, added left to right
              sum == F64Add(F64Add(F64Add(F64Add(F64Add(F64OfHundredths(structure),
                                                        F64OfHundredths(kw)),
                                                 F64OfHundredths(impact)),
                                          F64OfHundredths(edu)),
                                   F64OfHundredths(ats)),
                            fmt)
          IN  [ outcome |-> "returned",
                total |-> F64Round1(sum),
                breakdown |-> [ Structure |-> structure,
                                Keywords |-> F64Round1(F64OfHundredths(kw)),
                                Impact |-> F64Round1(F64OfHundredths(impact)),
                                EducationCerts |-> F64Round1(F64OfHundredths(edu)),
                                ATS |-> F64Round1(F64OfHundredths(ats)),
                                Formatting |-> F64Round1(fmt),
                                WordCount |-> word_count ],
                emitted |-> suggestions,
                suggestions |-> Slice(Dedup(suggestions, <<>>), 8) ] :
          structure \in {structure_points}, kw \in {kw_points}, impact \in {impact_points},
          edu \in {edu_points}, ats \in {ats_points}, fmt \in {fmt_points} } : TRUE

\* score_resume of ai_resume_score_app.py as first defined (lines 155-237)
ScoreV1(table, text, target_role, extra_keywords) ==
  ScoreClassic(table, ACTION_VERBS_V1, text, target_role, extra_keywords)

\* score_resume of v1.3 in the same file (lines 574-635): the same body, its own tables
ScoreV13(table, text, target_role, extra_keywords) ==
  ScoreClassic(table, ACTION_VERBS_V13, text, target_role, extra_keywords)

------------------------------------------------------------------------------
(* Exact comparison of large naturals: eight limbs of four decimal digits,     *)
(* least significant first.                                                    *)

BigBase == 10000
BigLimbs == 8

BigOfInt(n) ==
  [k \in 1..BigLimbs |->
     IF k = 1 THEN n % BigBase
     ELSE IF k = 2 THEN (n \div BigBase) % BigBase
     ELSE IF k = 3 THEN n \div (BigBase * BigBase)
     ELSE 0]

RECURSIVE BigCarry(_, _, _)
\* Limbs k.. of the number whose limb sums (before carrying) are cols, given the carry.
BigCarry(cols, k, carry) ==
  IF k > BigLimbs THEN <<>>
  ELSE <<(cols[k] + carry) % BigBase>> \o BigCarry(cols, k + 1, (cols[k] + carry) \div BigBase)

BigAdd(a, b) == BigCarry([k \in 1..BigLimbs |-> a[k] + b[k]], 1, 0)

RECURSIVE BigColumn(_, _, _, _)
\* The sum of a[i] * b[k + 1 - i] for i in 1..i: column k of the product.
BigColumn(a, b, k, i) ==
  IF i = 0 THEN 0 ELSE a[i] * b[k + 1 - i] + BigColumn(a, b, k, i - 1)

RECURSIVE BigMulFrom(_, _, _, _)
BigMulFrom(a, b, k, carry) ==
  IF k > BigLimbs THEN <<>>
  ELSE LET s == BigColumn(a, b, k, k) + carry
       IN  <<s % BigBase>> \o BigMulFrom(a, b, k + 1, s \div BigBase)

BigMul(a, b) == BigMulFrom(a, b, 1, 0)

BigLess(a, b) ==
  \E k \in 1..BigLimbs : a[k] < b[k] /\ \A j \in (k + 1)..BigLimbs : a[j] = b[j]

BigSquare(a) == BigMul(a, a)

------------------------------------------------------------------------------
(* tfidf_similarity: TfidfVectorizer(stop_words="english") on the two documents, *)
(* then the cosine similarity of the two rows.                                   *)

\* str.strip() leaves nothing: the string is empty or all whitespace.
Blank(s) == \A i \in 1..Len(s) : s[i] \in Space

\* Words of scikit-learn's English stop-word list (the words of the list that the
\* texts of this model can contain).
ENGLISH_STOP_WORDS ==
  { <<"t","h","e">>, <<"a","n","d">>, <<"o","f">>, <<"t","o">>, <<"i","n">>, <<"i","s">>,
    <<"f","o","r">>, <<"w","i","t","h">>, <<"o","n">>, <<"a","t">>, <<"b","y">>, <<"a","n">>,
    <<"b","e">>, <<"t","h","i","s">>, <<"t","h","a","t">>, <<"i","t">>, <<"o","r">>,
    <<"a","s">>, <<"a","r","e">>, <<"w","a","s">>, <<"w","e">>, <<"y","o","u">>,
    <<"h","a","v","e">>, <<"h","a","s">>, <<"t","h","e","y">>, <<"t","h","e","m">>,
    <<"c","o">>, <<"o","u","r">>, <<"f","r","o","m">>, <<"w","i","l","l">> }

\* The analyzer: the text lower-cased, its tokens the maximal runs of two or more
\* word characters (token_pattern (?u)\b\w\w+\b), stop words dropped.  The result
\* is the term frequency of each remaining term.
TokenSpans(t) ==
  { <<i, CHOOSE k \in i..Len(t) : AllIn(t, i, k, WordChar) /\ (k = Len(t) \/ t[k + 1] \notin WordChar)>> :
      i \in {j \in 1..Len(t) : t[j] \in WordChar /\ (j = 1 \/ t[j - 1] \notin WordChar)} }

TermFrequency(doc) ==
  LET t == lower(doc)
      spans == {sp \in TokenSpans(t) : sp[2] > sp[1] /\ SubSeq(t, sp[1], sp[2]) \notin ENGLISH_STOP_WORDS}
      terms == {SubSeq(t, sp[1], sp[2]) : sp \in spans}
  IN  [w \in terms |-> Cardinality({sp \in spans : SubSeq(t, sp[1], sp[2]) = w})]

RECURSIVE SumOver(_, _)
\* The sum of f[w] over the finite set S.
SumOver(f, S) ==
  IF S = {} THEN 0
  ELSE LET w == CHOOSE x \in S : TRUE IN f[w] + SumOver(f, S \ {w})

\* (1 + ln(3/2))^2 = 1.97533217..., the squared idf weight of a term found in one of
\* the two documents (idf = ln((1 + n) / (1 + df)) + 1 with n = 2; 1 when df = 2),
\* as a ratio IdfSqNum / IdfSqDen.
IdfSqNum == 197533217
IdfSqDen == 100000000

\* The similarity, kept exactly as its parts: the dot product of the two tf-idf rows
\* and, for each row, the squared weights of the shared terms and the squared counts
\* of its own terms.  cos = dot / sqrt(na2 * nb2), where
\* na2 = sa + (IdfSqNum / IdfSqDen) * ua, and 0 when a row is all zero.
NoSim == [raised |-> FALSE, dot |-> 0, sa |-> 0, ua |-> 0, sb |-> 0, ub |-> 0]

tfidf_similarity(a, b, available) ==
  IF ~available \/ Blank(a) \/ Blank(b) THEN NoSim
  ELSE LET fa == TermFrequency(a)
           fb == TermFrequency(b)
           both == DOMAIN fa \cap DOMAIN fb
       IN  IF DOMAIN fa \cup DOMAIN fb = {}
           THEN [NoSim EXCEPT !.raised = TRUE]
           ELSE [ raised |-> FALSE,
                  dot |-> SumOver([w \in both |-> fa[w] * fb[w]], both),
                  sa |-> SumOver([w \in both |-> fa[w] * fa[w]], both),
                  ua |-> SumOver([w \in DOMAIN fa \ both |-> fa[w] * fa[w]], DOMAIN fa \ both),
                  sb |-> SumOver([w \in both |-> fb[w] * fb[w]], both),
                  ub |-> SumOver([w \in DOMAIN fb \ both |-> fb[w] * fb[w]], DOMAIN fb \ both) ]

\* IdfSqDen^2 * dot^2 and IdfSqDen^2 * na2 * nb2: cos^2 is their ratio.
SimNum2(sim) == BigSquare(BigMul(BigOfInt(sim.dot), BigOfInt(IdfSqDen)))
SimDen2(sim) ==
  BigMul(BigAdd(BigMul(BigOfInt(sim.sa), BigOfInt(IdfSqDen)), BigMul(BigOfInt(sim.ua), BigOfInt(IdfSqNum))),
         BigAdd(BigMul(BigOfInt(sim.sb), BigOfInt(IdfSqDen)), BigMul(BigOfInt(sim.ub), BigOfInt(IdfSqNum))))

\* cos < p / q, for naturals p and q > 0.
SimLess(sim, p, q) ==
  IF sim.dot = 0 THEN p > 0
  ELSE BigLess(BigMul(BigOfInt(q * q), SimNum2(sim)), BigMul(BigOfInt(p * p), SimDen2(sim)))

\* cos = 1
SimIsOne(sim) == sim.dot > 0 /\ SimNum2(sim) = SimDen2(sim)

RECURSIVE RoundSim35(_, _, _)
\* round(sim * 35.0, 1) in tenths: the largest j in lo..hi with sim * 35 >= j/10 - 0.05,
\* which is sim >= (2j - 1) / 700.
RoundSim35(sim, lo, hi) ==
  IF lo = hi THEN lo
  ELSE LET mid == (lo + hi + 1) \div 2
       IN  IF SimLess(sim, 2 * mid - 1, 700) THEN RoundSim35(sim, lo, mid - 1)
           ELSE RoundSim35(sim, mid, hi)

------------------------------------------------------------------------------
(* score_resume, research-backed variant *)

\* JdUsable with the comparison >= 20.
JdUsable_AtLeast20(jd_text) == jd_text # <<>> /\ WordCount(jd_text) >= 20

\* jd_text and len(jd_text.split()) > 20
JdUsable(jd_text) == jd_text # <<>> /\ WordCount(jd_text) > 20

JdPoints(sim) == Min(3500, 10 * RoundSim35(sim, 0, 350))

\* min(15.0, round(min(nums, 6) * 1.8 + min(actions, 6) * 0.9, 1)), in hundredths
ImpactPointsV2(nums, actions) == Min(1500, Min(nums, 6) * 180 + Min(actions, 6) * 90)

\* The three ATS suggestions of the research-backed variant; specials_low is
\* specials < 0.05.
AtsSuggestionsV2(email_ok, phone_ok, specials_low) ==
  (IF ~email_ok THEN <<Sug("email")>> ELSE <<>>)
    \o (IF ~phone_ok THEN <<Sug("phone")>> ELSE <<>>)
    \o (IF ~specials_low THEN <<Sug("graphics")>> ELSE <<>>)

\* found = has_any(tl, role_words): one entry per listed word that occurs.
FoundRoleV2(table, text, role) == FilterIn(RoleWords(table, role), lower(text))

\* max(len(set(role_words)), 1)
KeywordSetSize(role_words) == Max(Cardinality(Range(role_words)), 1)

\* KwPointsV2 with the cap left out.
KwPointsV2_NoCap(found_count, nwords) ==
  RoundRatio1(25 * found_count + Min(found_count, 12) * nwords, nwords)

\* coverage = len(found) / max(len(set(role_words)), 1)
\* kw_points = min(25.0, round(coverage * 25.0 + min(len(found), 12), 1)), in hundredths
KwPointsV2(found_count, nwords) ==
  Min(2500, RoundRatio1(25 * found_count + Min(found_count, 12) * nwords, nwords))

\* if coverage < 0.5: missing = sorted(set(role_words) - set(found))[:10]
KeywordSuggestionV2(role, role_words, found) ==
  IF 2 * Len(found) < KeywordSetSize(role_words)
  THEN <<SugKeywords(role, SortedPrefix(Range(role_words) \ Range(found), 10))>>
  ELSE <<>>

\* struct += 15.0/5.0 per section with an alias in the text; round(struct, 1)
StructurePointsV2(tl) == 300 * HitCount(SECTIONS_V2, tl)

ScoreV2(table, text, role, jd_text, available) ==
  LET tl == lower(text)
      word_count == WordCount(tl)
      \* A) JD Similarity (0-35)
      usable == JdUsable(jd_text)
      sim == tfidf_similarity(text, jd_text, available)
      jd_points == IF usable THEN JdPoints(sim) ELSE 0
      sA == IF usable THEN (IF SimLess(sim, 1, 4) THEN <<Sug("tailor")>> ELSE <<>>)
            ELSE <<Sug("paste_jd")>>
      \* B) Role Keywords Coverage (0-25)
      role_words == RoleWords(table, role)
      found == FoundRoleV2(table, text, role)
      kw_points == KwPointsV2(Len(found), KeywordSetSize(role_words))
      sB == KeywordSuggestionV2(role, role_words, found)
      \* C) Structure & Sections (0-15)
      struct == StructurePointsV2(tl)
      sC == MissingSections(SECTIONS_V2, tl)
      \* D) Impact Signals (0-15)
      nums == CountNumbers(tl)
      actions == ActionUses(ACTION_VERBS_V2, tl)
      impact == ImpactPointsV2(nums, actions)
      sD == ImpactSuggestions(nums, actions)
      \* E) ATS Basics & Formatting (0-10)
      email_ok == HasEmail(tl)
      phone_ok == HasPhone(tl)
      bullets == CountBullets(text)
      specials_low == SpecialRatioLow(text)
      ats == (IF email_ok THEN 300 ELSE 0) + (IF phone_ok THEN 300 ELSE 0)
               + (IF bullets >= 5 THEN 200 ELSE 0) + (IF specials_low THEN 200 ELSE 0)
      sE == AtsSuggestionsV2(email_ok, phone_ok, specials_low)
      \* F) Education & Certifications (0-5)
      edu_hits == Len(FilterIn(EDU_WORDS_V2, tl))
      cert_hits == Len(FilterIn(CERT_WORDS_V2, tl))
      edu == Min(500, (IF edu_hits > 0 THEN 300 ELSE 0) + Min(cert_hits, 2) * 100)
      sF == (IF edu_hits = 0 THEN <<Sug("education")>> ELSE <<>>)
              \o (IF cert_hits = 0 THEN <<Sug("certifications")>> ELSE <<>>)
      sG == IF 300 <= word_count /\ word_count <= 900 THEN <<>> ELSE <<Sug("concise")>>
      suggestions == sA \o sB \o sC \o sD \o sE \o sF \o sG
  IN  IF usable /\ sim.raised
      THEN [outcome |-> "raised", error |-> "ValueError", sim_computed |-> TRUE]
      ELSE [ outcome |-> "returned",
             sim_computed |-> usable,
             sim |-> IF usable THEN sim ELSE NoSim,
             total |-> jd_points + kw_points + struct + impact + ats + edu,
             breakdown |-> [ JDSimilarity |-> jd_points,
                             Keywords |-> kw_points,
                             Structure |-> struct,
                             Impact |-> impact,
                             ATS |-> ats,
                             EducationCerts |-> edu,
                             WordCount |-> word_count ],
             emitted |-> suggestions,
             suggestions |-> Slice(Dedup(suggestions, <<>>), 10) ]

------------------------------------------------------------------------------
(* The inputs of the calls: resume texts, roles, extra keywords, job descriptions *)

\* A resume of 35 words: five section headings, five "-" bullet lines, nine
\* keywords of "General / Fresher", seven numbers, six action verbs, an email
\* address, a phone number, a degree and two certification words.
RichResume ==
  <<"s","u","m","m","a","r","y"," ","e","x","p","e","r","i","e","n","c","e"," ","e","d","u","c","a","t","i","o","n"," ","s","k","i","l","l","s"," ","c","e","r","t","i","f","i","c","a","t","i","o","n","s","\n","-"," ","l","e","d"," ","t","e","a","m"," ","p","r","o","j","e","c","t"," ","1","0"," ","2","0"," ","3","0","\n","-"," ","b","u","i","l","t"," ","p","y","t","h","o","n"," ","e","x","c","e","l"," ","s","q","l"," ","4","0"," ","5","0"," ","6","0","\n","-"," ","c","r","e","a","t","e","d"," ","a","w","a","r","d"," ","c","e","r","t","i","f","i","e","d"," ","p","m","p","\n","-"," ","d","e","v","e","l","o","p","e","d"," ","i","n","t","e","r","n","s","h","i","p"," ","d","e","g","r","e","e","\n","-"," ","d","e","s","i","g","n","e","d"," ","l","a","u","n","c","h","e","d"," ","a","b","@","c","d",".","i","o"," ","9","8","7","6","5","4","3","2","1","0"," ","p","r","e","s","e","n","t","a","t","i","o","n">>

\* Eleven words, all of them English stop words.
StopWords ==
  <<"t","h","e"," ","a","n","d"," ","o","f"," ","t","o"," ","i","n"," ","i","s"," ","f","o","r"," ","w","i","t","h"," ","o","n"," ","a","t"," ","b","y">>

\* Mostly table-drawing characters.
Graphics ==
  <<"#","#"," ","|"," ","#","#"," ","|"," ","#">>

\* The seven section headings of the classic catalog, and nothing else.
Headings ==
  <<"s","u","m","m","a","r","y"," ","e","x","p","e","r","i","e","n","c","e"," ","p","r","o","j","e","c","t","s"," ","e","d","u","c","a","t","i","o","n"," ","s","k","i","l","l","s"," ","c","e","r","t","i","f","i","c","a","t","i","o","n","s"," ","a","w","a","r","d","s">>

\* A job description of exactly 20 words.
JD20 ==
  <<"p","y","t","h","o","n"," ","s","q","l"," ","e","x","c","e","l"," ","t","a","b","l","e","a","u"," ","p","a","n","d","a","s"," ","t","e","a","m"," ","p","r","o","j","e","c","t"," ","k","p","i"," ","e","t","l"," ","d","a","x"," ","t","h","e"," ","a","n","d"," ","o","f"," ","t","o"," ","i","n"," ","i","s"," ","f","o","r"," ","w","i","t","h"," ","o","n"," ","a","t">>

\* A job description of 23 words, close to RichResume.
JDLong ==
  <<"l","e","d"," ","t","e","a","m"," ","p","r","o","j","e","c","t"," ","b","u","i","l","t"," ","p","y","t","h","o","n"," ","e","x","c","e","l"," ","s","q","l"," ","c","r","e","a","t","e","d"," ","a","w","a","r","d"," ","c","e","r","t","i","f","i","e","d"," ","p","m","p"," ","d","e","v","e","l","o","p","e","d"," ","i","n","t","e","r","n","s","h","i","p"," ","d","e","g","r","e","e"," ","d","e","s","i","g","n","e","d"," ","l","a","u","n","c","h","e","d"," ","p","r","e","s","e","n","t","a","t","i","o","n"," ","s","u","m","m","a","r","y"," ","e","x","p","e","r","i","e","n","c","e"," ","e","d","u","c","a","t","i","o","n"," ","s","k","i","l","l","s"," ","t","h","e"," ","a","n","d">>

\* A job description of 21 words, all of them English stop words.
JDStop ==
  <<"t","h","e"," ","a","n","d"," ","o","f"," ","t","o"," ","i","n"," ","i","s"," ","f","o","r"," ","w","i","t","h"," ","o","n"," ","a","t"," ","b","y"," ","a","n"," ","b","e"," ","t","h","i","s"," ","t","h","a","t"," ","i","t"," ","o","r"," ","a","s"," ","a","r","e"," ","w","a","s"," ","w","e">>

\* An extra_keywords string: a role keyword twice and a new keyword.
ExtraSql ==
  <<"s","q","l",","," ","S","n","o","w","f","l","a","k","e"," ",",","s","q","l">>

\* One line with two listed action verbs, and two sections named by an alias that is
\* not the first of its list.
VerbLine ==
  <<"d","e","s","i","g","n","e","d"," ","b","u","i","l","t"," ","p","r","o","f","i","l","e"," ","l","i","c","e","n","s","e","s">>

\* Five lines, each of them one "-".
DashLines ==
  <<"-","\n","-","\n","-","\n","-","\n","-">>
\* The number of fragments a resume text is made of, at most.
MaxLines == 2

Fragments == {RichResume, StopWords, Graphics, Headings}

RECURSIVE Joined(_)
\* The texts of exactly k fragments, one per line.
Joined(k) ==
  IF k = 1 THEN Fragments
  ELSE {t \o <<"\n">> \o f : t \in Joined(k - 1), f \in Fragments}

Texts == {<<>>, VerbLine, DashLines} \cup UNION {Joined(k) : k \in 1..MaxLines}

\* A role of both role tables, and a role of neither.
Roles == {"General / Fresher", "Astronaut"}

\* extra_keywords: None or "" (both falsy), or a comma-separated string.
Extras == {<<>>, ExtraSql}

\* jd_text: "" (the text area left empty), the resume text itself, or one of three
\* job descriptions.
JobDescriptions(text) == {<<>>, text, JD20, JDLong, JDStop}

------------------------------------------------------------------------------
(* The state machine *)

NoCall == [text |-> <<>>, role |-> "", extra_keywords |-> <<>>, jd_text |-> <<>>]
NoRet == [outcome |-> "none"]

\* leads.csv before it is created.
NoFile == [exists |-> FALSE, rows |-> <<>>]

\* Either program has been loaded; no call of score_resume has been made. (No script
\* run is modelled here: score_resume is called directly.)
Init ==
  /\ app \in {"classic", "research"}
  /\ ROLE_KEYWORDS = IF app = "classic" THEN ROLE_KEYWORDS_V1 ELSE ROLE_KEYWORDS_V2
  /\ TfidfVectorizer \in (IF app = "classic" THEN {FALSE} ELSE BOOLEAN)
  /\ pc = "idle"
  /\ call = NoCall
  /\ ret = NoRet
  /\ extras_seen = FALSE
  /\ PyPDF2 = TRUE
  /\ docx2txt = TRUE
  /\ leads_csv = NoFile
  /\ run = <<>>

\* score_resume(text, target_role, extra_keywords) of ai_resume_score_app.py, called
\* with arguments of the given sets
score_resume_classic(texts, roles, extras) ==
  /\ pc = "idle"
  /\ app = "classic"
  /\ \E text \in texts, target_role \in roles, extra_keywords \in extras :
       /\ call' = [text |-> text, role |-> target_role,
                   extra_keywords |-> extra_keywords, jd_text |-> <<>>]
       /\ ret' = ScoreV1(ROLE_KEYWORDS, text, target_role, extra_keywords)
       /\ ROLE_KEYWORDS' = TableAfterV1(ROLE_KEYWORDS, target_role, extra_keywords)
       /\ extras_seen' = (extras_seen \/ extra_keywords # <<>>)
  /\ pc' = ret'.outcome
  /\ UNCHANGED <<import_vars, io_vars>>

\* score_resume(text, role, jd_text) of ai_resume_score_app_v2.py, called with
\* arguments of the given sets: descriptions maps each text to the job descriptions
\* it is scored against
score_resume_research(roles, descriptions) ==
  /\ pc = "idle"
  /\ app = "research"
  /\ \E text \in DOMAIN descriptions, role \in roles :
       \E jd_text \in descriptions[text] :
         /\ call' = [text |-> text, role |-> role, extra_keywords |-> <<>>, jd_text |-> jd_text]
         /\ ret' = ScoreV2(ROLE_KEYWORDS, text, role, jd_text, TfidfVectorizer)
  /\ pc' = ret'.outcome
  /\ UNCHANGED <<ROLE_KEYWORDS, extras_seen, import_vars, io_vars>>

\* The caller is done with the result (or with the exception); the next call can be made.
Finish ==
  /\ pc \in {"returned", "raised"}
  /\ pc' = "idle"
  /\ call' = NoCall
  /\ ret' = NoRet
  /\ UNCHANGED <<ROLE_KEYWORDS, extras_seen, import_vars, io_vars>>

Next ==
  \/ score_resume_classic(Texts, Roles, Extras)
  \/ score_resume_research(Roles, [text \in Texts |-> JobDescriptions(text)])
  \/ Finish

Spec == Init /\ [][Next]_vars

------------------------------------------------------------------------------
(* Properties *)

Classic == app = "classic"
Research == app = "research"
Returned == pc = "returned"

\* The category band maxima, in hundredths of a point.
BandsClassic ==
  [Structure |-> 2000, Keywords |-> 3000, Impact |-> 2000, EducationCerts |-> 1000,
   ATS |-> 1000, Formatting |-> 1000]
BandsResearch ==
  [JDSimilarity |-> 3500, Keywords |-> 2500, Structure |-> 1500, Impact |-> 1500,
   ATS |-> 1000, EducationCerts |-> 500]

Bands == IF Classic THEN BandsClassic ELSE BandsResearch

\* The sum of the sub-scores the breakdown shows (every entry but the word count).
BreakdownSum == SumOver(ret.breakdown, DOMAIN Bands)

\* The length of the returned suggestion list, at most.
ListCap == IF Classic THEN 8 ELSE 10

\* The positions of the emitted suggestions that are first occurrences.
FirstOccurrences(e) == {i \in 1..Len(e) : \A j \in 1..(i - 1) : e[j] # e[i]}

\* The number of distinct suggestions emitted before the first s.
DistinctBefore(e, s) ==
  Cardinality({i \in FirstOccurrences(e) : \A j \in 1..i : e[j] # s})

Kinds(list) == {list[i].kind : i \in 1..Len(list)}

\* C1: for every input the total returned by score_resume is between 0 and 100,
\* under the classic weighting and under the research-backed one.
C1_TotalWithin100 == Returned => 0 <= ret.total /\ ret.total <= 10000

\* The research-backed total of a complete resume scored against itself: 105.0
C1_Witness == Returned /\ Research /\ ret.total = 10500

\* C2: every category sub-score of the returned breakdown is at least 0 and at most
\* the band maximum of its category.
C2_SubScoresWithinBands ==
  Returned => \A k \in DOMAIN Bands : 0 <= ret.breakdown[k] /\ ret.breakdown[k] <= Bands[k]

\* A call where a cap acted: more numbers and verbs than the Impact band pays for.
C2_Witness ==
  /\ Returned /\ Classic
  /\ CountNumbers(lower(call.text)) > 5
  /\ Len(FilterIn(ACTION_VERBS_V1, lower(call.text))) > 5
  /\ ret.breakdown.Impact = BandsClassic.Impact

\* C3: the returned total is exactly the sum of the category sub-scores of the
\* returned breakdown.
C3_TotalIsBreakdownSum == Returned => ret.total = BreakdownSum

\* A classic call whose total is a tenth away from the sum of what the breakdown shows.
C3_Witness == Returned /\ Classic /\ Abs(ret.total - BreakdownSum) = 10

\* The empty string as text, no extra keywords, no job description.
EmptyCall == Returned /\ call.text = <<>> /\ call.extra_keywords = <<>> /\ call.jd_text = <<>>

\* C4 as stated: the empty text gets Word Count 0 and Keywords, Impact and ATS all 0.
C4_EmptyAllZero ==
  EmptyCall => /\ ret.breakdown.WordCount = 0
               /\ ret.breakdown.Keywords = 0
               /\ ret.breakdown.Impact = 0
               /\ ret.breakdown.ATS = 0

\* C4, amended: the empty text gets Word Count 0 and Keywords 0; Impact is the base of
\* the variant (10 classic, 0 research-backed) and ATS is 2, the points of the
\* special-character check, which an empty text passes.
C4_EmptyBreakdown ==
  EmptyCall => /\ ret.breakdown.WordCount = 0
               /\ ret.breakdown.Keywords = 0
               /\ ret.breakdown.Impact = (IF Classic THEN 1000 ELSE 0)
               /\ ret.breakdown.ATS = 200

C4_Witness == EmptyCall /\ Classic /\ call.role = "General / Fresher"

\* C5: score_resume never raises, whatever the text, role, extra keywords and job
\* description.
C5_NeverRaises == pc # "raised"

\* The research-backed call that raises: text and job description of stop words only.
C5_Witness ==
  /\ pc = "raised" /\ Research
  /\ call.text = StopWords /\ call.jd_text = JDStop
  /\ ret.error = "ValueError"

\* C6: the returned suggestions are the emitted ones, every repeated one removed (the
\* first occurrence kept, the order unchanged), cut to the first 8 (classic) or 10
\* (research-backed); so the list has at most that many entries and none twice.
C6_DedupThenCut ==
  Returned =>
    LET e == ret.emitted
        s == ret.suggestions
        first == FirstOccurrences(e)
    IN  /\ Len(s) = Min(ListCap, Cardinality(first))
        /\ \A k \in 1..Len(s) :
             \E i \in first : Cardinality({j \in first : j <= i}) = k /\ s[k] = e[i]
        /\ \A i, j \in 1..Len(s) : i # j => s[i] # s[j]

\* A call that emitted more suggestions than the list holds.
C6_Witness == Returned /\ Classic /\ Len(ret.emitted) > 8 /\ Len(ret.suggestions) = 8

\* The stage of a suggestion in the pipeline order of the specification.
StageAsSpecified ==
  [k \in {"add_section", "keywords", "quantify", "action_verbs", "email", "phone", "graphics",
          "education", "certifications", "tailor", "paste_jd", "concise"} |->
     CASE k = "add_section" -> 1
       [] k = "keywords" -> 2
       [] k \in {"quantify", "action_verbs"} -> 3
       [] k \in {"email", "phone", "graphics"} -> 4
       [] k \in {"education", "certifications"} -> 5
       [] k \in {"tailor", "paste_jd"} -> 6
       [] OTHER -> 7]

\* The stage of a suggestion in the order the classic score_resume runs its stages.
StageClassic ==
  [k \in DOMAIN StageAsSpecified |->
     CASE k = "add_section" -> 1
       [] k = "keywords" -> 2
       [] k \in {"quantify", "action_verbs"} -> 3
       [] k \in {"education", "certifications"} -> 4
       [] k \in {"email", "phone", "graphics"} -> 5
       [] k \in {"tailor", "paste_jd"} -> 6
       [] OTHER -> 7]

\* The stage of a suggestion in the order the research-backed score_resume runs its stages.
StageResearch ==
  [k \in DOMAIN StageAsSpecified |->
     CASE k \in {"tailor", "paste_jd"} -> 1
       [] k = "keywords" -> 2
       [] k = "add_section" -> 3
       [] k \in {"quantify", "action_verbs"} -> 4
       [] k \in {"email", "phone", "graphics"} -> 5
       [] k \in {"education", "certifications"} -> 6
       [] OTHER -> 7]

InStageOrder(list, stage) ==
  \A i, j \in 1..Len(list) : i < j => stage[list[i].kind] <= stage[list[j].kind]

\* C7 as stated: the returned suggestions are in the order sections, keyword, impact,
\* ATS, education/certification, job description, conciseness.
C7_OrderAsSpecified == Returned => InStageOrder(ret.suggestions, StageAsSpecified)

\* C7, amended: the returned suggestions are in the order the variant runs its stages.
\* Classic: sections, keyword, impact, education/certification, ATS, conciseness.
\* Research-backed: job description, keyword, sections, impact, ATS,
\* education/certification, conciseness.
C7_OrderOfTheCode ==
  Returned => InStageOrder(ret.suggestions, IF Classic THEN StageClassic ELSE StageResearch)

\* A classic call that returns an education suggestion ahead of an ATS suggestion.
C7_Witness ==
  /\ Returned /\ Classic
  /\ \E i, j \in 1..Len(ret.suggestions) :
       i < j /\ ret.suggestions[i].kind = "education" /\ ret.suggestions[j].kind = "email"

\* What the ATS stage has to suggest for the text of the call.
AtsDue ==
  (IF HasEmail(lower(call.text)) THEN {} ELSE {"email"})
    \cup (IF HasPhone(lower(call.text)) THEN {} ELSE {"phone"})
    \cup (IF Research /\ ~SpecialRatioLow(call.text) THEN {"graphics"} ELSE {})

\* C8 as stated: a text without an email pattern gets the email suggestion in the
\* returned list, a text without a phone pattern the phone suggestion and, in the
\* research-backed variant, a special-character ratio >= 0.05 the graphics suggestion.
C8_DueInReturnedList == Returned => AtsDue \subseteq Kinds(ret.suggestions)

\* C8, amended: each of these suggestions is emitted, and it is in the returned list
\* exactly when fewer than 8 (classic) or 10 (research-backed) distinct suggestions
\* were emitted before it.
C8_DueEmitted ==
  Returned =>
    \A k \in AtsDue :
      /\ Sug(k) \in Range(ret.emitted)
      /\ Sug(k) \in Range(ret.suggestions) <=> DistinctBefore(ret.emitted, Sug(k)) < ListCap

\* A call whose email suggestion was emitted and cut from the returned list.
C8_Witness ==
  /\ Returned /\ Classic
  /\ "email" \in AtsDue
  /\ Sug("email") \in Range(ret.emitted)
  /\ Sug("email") \notin Range(ret.suggestions)

\* C9: research-backed, with no job description or one of 20 words or fewer the JD
\* Similarity score is 0 and the returned list holds the paste-a-job-description
\* suggestion; the similarity is computed only for a job description of more than 20 words.
C9_ShortJobDescription ==
  Research /\ pc \in {"returned", "raised"} =>
    /\ ret.sim_computed => WordCount(call.jd_text) > 20
    /\ Returned /\ WordCount(call.jd_text) <= 20 =>
         /\ ret.breakdown.JDSimilarity = 0
         /\ Sug("paste_jd") \in Range(ret.suggestions)

\* A job description of exactly 20 words, which shares terms with the resume.
C9_Witness ==
  /\ Returned /\ Research /\ TfidfVectorizer
  /\ call.text = RichResume /\ call.jd_text = JD20
  /\ WordCount(call.jd_text) = 20
  /\ ~ret.sim_computed
  /\ ret.breakdown.JDSimilarity = 0

\* C10: research-backed, a resume and a job description that are the same string of
\* more than 20 words have similarity 1.0 and the JD Similarity score 35; and a
\* similarity below 0.25 comes with the tailor-to-the-job-description suggestion.
C10_IdenticalTextsFullBand ==
  Research /\ pc \in {"returned", "raised"} =>
    /\ call.jd_text = call.text /\ WordCount(call.text) > 20 =>
         Returned /\ SimIsOne(ret.sim) /\ ret.breakdown.JDSimilarity = 3500
    /\ Returned /\ ret.sim_computed /\ SimLess(ret.sim, 1, 4) =>
         Sug("tailor") \in Range(ret.emitted)

\* Identical texts of 22 stop words, with scikit-learn installed: the call raises.
C10_Witness ==
  /\ pc = "raised" /\ Research /\ TfidfVectorizer
  /\ call.jd_text = call.text
  /\ WordCount(call.text) = 22


------------------------------------------------------------------------------
(* Keywords: the found count, the tables, monotonicity *)

\* The app's role table as the module defines it.
StaticTable == IF Classic THEN ROLE_KEYWORDS_V1 ELSE ROLE_KEYWORDS_V2

\* The request's keyword list for a call of the current role and extra keywords.
RequestWords ==
  IF Classic THEN RoleWordsV1(ROLE_KEYWORDS, call.role, call.extra_keywords)
  ELSE RoleWords(ROLE_KEYWORDS, call.role)

\* The keywords of the request that occur in a text, as a set.
FoundSet(text) == {w \in Range(RequestWords) : In(w, lower(text))}

\* C11 as stated: classic, the found count behind the Keywords score is the number of
\* distinct keywords of the role's list and the extra keywords that occur in the
\* lower-cased text; a keyword listed more than once is counted once.
C11_DistinctKeywordsCounted ==
  Returned /\ Classic =>
    ret.breakdown.Keywords = Min(Cardinality(FoundSet(call.text)) * 250, 3000)

\* Extra keywords "sql, Snowflake ,sql" for a role that lists sql: nine distinct
\* keywords occur in the text and eleven are counted.
C11_Witness ==
  /\ Returned /\ Classic
  /\ call.text = RichResume /\ call.extra_keywords = ExtraSql
  /\ Cardinality(FoundSet(call.text)) = 9
  /\ ret.breakdown.Keywords = 11 * 250

\* What score_resume returns for the arguments of the current call when it runs on
\* the table as the module defines it.
FreshResult ==
  IF Classic THEN ScoreV1(ROLE_KEYWORDS_V1, call.text, call.role, call.extra_keywords)
  ELSE ScoreV2(ROLE_KEYWORDS_V2, call.text, call.role, call.jd_text, TfidfVectorizer)

\* C12: score_resume keeps no state between calls: after any sequence of calls, with
\* any extra keywords, the role table is what the module defines, and every call
\* returns (or raises) what a first call with the same arguments does.
C12_NoStateBetweenCalls ==
  /\ ROLE_KEYWORDS = StaticTable
  /\ pc \in {"returned", "raised"} => ret = FreshResult

\* A call without extra keywords that returned after an earlier call with extra
\* keywords for the same table.
C12_Witness ==
  /\ Returned /\ Classic
  /\ extras_seen /\ call.extra_keywords = <<>>
  /\ call.text = RichResume
  /\ ret = FreshResult

\* The texts of at most one fragment.
BaseTexts == {<<>>, VerbLine} \cup Fragments

\* The Keywords score of a text for the role and extra keywords of the current call.
KeywordsScore(text) ==
  IF Classic
  THEN F64Round1(F64OfHundredths(
         KwPointsV1(Len(FoundRoleV1(ROLE_KEYWORDS, text, call.role, call.extra_keywords)))))
  ELSE KwPointsV2(Len(FoundRoleV2(ROLE_KEYWORDS, text, call.role)),
                  KeywordSetSize(RoleWords(ROLE_KEYWORDS, call.role)))

\* C13: keyword monotonicity: for a fixed role and fixed extra keywords, a text that
\* contains every keyword a base text contains gets a Keywords score at least as
\* high as the base text, under the flat-rate and under the coverage-blend policy.
C13_KeywordMonotone ==
  Returned =>
    \A base \in BaseTexts :
      FoundSet(base) \subseteq FoundSet(call.text) =>
        KeywordsScore(base) <= ret.breakdown.Keywords

\* A text that extends the headings line (one keyword) with a line of nine keywords.
C13_Witness ==
  /\ Returned
  /\ call.text = Headings \o <<"\n">> \o RichResume
  /\ FoundSet(Headings) \subseteq FoundSet(call.text)
  /\ 0 < KeywordsScore(Headings)
  /\ KeywordsScore(Headings) < ret.breakdown.Keywords

------------------------------------------------------------------------------
(* The Streamlit scripts: the upload, text extraction, the lead store *)

\* The number of submissions of one session, at most.
MaxSubmits == 2

\* The number of browser sessions open at the same time, at most.
MaxSessions == 2

\* ALLOWED_EXTS, and type=["pdf","docx","txt"] of st.file_uploader
ALLOWED_EXTS == {"pdf", "docx", "txt"}

\* MAX_FILE_MB of v1.3; file sizes are counted in whole megabytes.
MAX_FILE_MB == 5

\* What an uploaded document of each type can be: with text, a scan without text,
\* locked by a password, damaged; a DOCX without text; a text file of blanks.
Contents ==
  [pdf |-> {"text", "scanned", "encrypted", "corrupt"},
   docx |-> {"text", "notext", "corrupt"},
   txt |-> {"text", "blank"}]

\* The uploads: a file of zero bytes, a file within the limit of v1.3 of each kind,
\* and a file above it.
Uploads ==
  {[ext |-> e, size |-> 0, content |-> "none"] : e \in ALLOWED_EXTS}
    \cup UNION {{[ext |-> e, size |-> 1, content |-> c] : c \in Contents[e]} : e \in ALLOWED_EXTS}
    \cup {[ext |-> e, size |-> MAX_FILE_MB + 1, content |-> "text"] : e \in ALLOWED_EXTS}

\* A text file with a resume in it.
PlainUpload == [ext |-> "txt", size |-> 1, content |-> "text"]

\* The text of the uploaded resume: one role keyword.
ResumeText == <<"s", "q", "l">>

\* The first bytes of a PDF file and of a DOCX (zip) file, decoded.
PdfMagic == <<"%", "P", "D", "F", "-", "1", ".", "4">>
ZipMagic == <<"P", "K">>

\* The text a reader gets out of the document (page.extract_text(), docx2txt.process).
ReaderText(file) == IF file.content = "text" THEN ResumeText ELSE <<>>

\* PdfReader(...) / reader.pages / docx2txt.process raise on this document.
ReaderRaises(file) == file.size = 0 \/ file.content \in {"encrypted", "corrupt"}

\* data.decode("utf-8", errors="ignore") of the uploaded bytes
Decoded(file) ==
  IF file.size = 0 THEN <<>>
  ELSE IF file.ext = "pdf" THEN PdfMagic
  ELSE IF file.ext = "docx" THEN ZipMagic
  ELSE IF file.content = "blank" THEN <<" ", "\n">>
  ELSE ResumeText

\* extract_text_from_file of ai_resume_score_app.py (lines 99-136) and extract_text of
\* ai_resume_score_app_v2.py: a reader that is missing, raises or finds no text falls
\* through to the plain decoding of the bytes.
extract_text(file, pdf_reader, docx_reader) ==
  LET text == IF ReaderRaises(file) THEN <<>> ELSE ReaderText(file)
  IN  IF file.ext = "pdf" /\ pdf_reader /\ Strip(text) # <<>> THEN text
      ELSE IF file.ext = "docx" /\ docx_reader /\ Strip(text) # <<>> THEN text
      ELSE Decoded(file)

\* precheck_file with readable_text set to True in the initial checks.
precheck_file_ReadableAtStart(file, pdf_reader, decrypt_raises) ==
  LET checks == [type_supported |-> file.ext \in ALLOWED_EXTS,
                 size_ok |-> file.size <= MAX_FILE_MB,
                 not_empty |-> file.size > 0,
                 readable_text |-> TRUE,
                 not_password_protected |-> TRUE,
                 pdf_reader_available |-> IF file.ext = "pdf" THEN pdf_reader ELSE TRUE]
      stop(message) == [checks |-> checks, first_error |-> message]
  IN  IF ~checks.type_supported THEN stop("Unsupported file type.")
      ELSE IF ~checks.not_empty THEN stop("This file is empty.")
      ELSE IF ~checks.size_ok THEN stop("File too large.")
      ELSE IF file.ext = "pdf" /\ ~checks.pdf_reader_available
        THEN stop("PDF reader is not available on server.")
      ELSE IF file.content = "unreadable" THEN stop("We couldn't read this file.")
      ELSE IF file.ext # "pdf" THEN [checks |-> checks, first_error |-> ""]
      ELSE IF file.content = "encrypted" /\ decrypt_raises
        THEN [checks |-> [checks EXCEPT !.not_password_protected = FALSE],
              first_error |-> "This PDF is password-protected."]
      ELSE IF ReaderRaises(file) THEN stop("We couldn't open this PDF.")
      ELSE IF Strip(ReaderText(file)) = <<>>
        THEN [checks |-> [checks EXCEPT !.readable_text = FALSE],
              first_error |-> "This PDF looks like a scanned image."]
      ELSE [checks |-> checks, first_error |-> ""]

\* precheck_file of v1.3: (checks, first_error), first_error "" when there is none.
\* A file of content "unreadable" is one whose file.read() raises. decrypt_raises says
\* whether reader.decrypt("") raises on a locked PDF or returns without unlocking it
\* (reader.pages raises then).
precheck_file(file, pdf_reader, decrypt_raises) ==
  LET checks == [type_supported |-> file.ext \in ALLOWED_EXTS,
                 size_ok |-> file.size <= MAX_FILE_MB,
                 not_empty |-> file.size > 0,
                 readable_text |-> FALSE,
                 not_password_protected |-> TRUE,
                 pdf_reader_available |-> IF file.ext = "pdf" THEN pdf_reader ELSE TRUE]
      stop(message) == [checks |-> checks, first_error |-> message]
  IN  IF ~checks.type_supported THEN stop("Unsupported file type.")
      ELSE IF ~checks.not_empty THEN stop("This file is empty.")
      ELSE IF ~checks.size_ok THEN stop("File too large.")
      ELSE IF file.ext = "pdf" /\ ~checks.pdf_reader_available
        THEN stop("PDF reader is not available on server.")
      ELSE IF file.content = "unreadable" THEN stop("We couldn't read this file.")
      ELSE IF file.ext # "pdf" THEN [checks |-> [checks EXCEPT !.readable_text = TRUE],
                                     first_error |-> ""]
      ELSE IF file.content = "encrypted" /\ decrypt_raises
        THEN [checks |-> [checks EXCEPT !.not_password_protected = FALSE],
              first_error |-> "This PDF is password-protected."]
      ELSE IF ReaderRaises(file) THEN stop("We couldn't open this PDF.")
      ELSE IF Strip(ReaderText(file)) = <<>>
        THEN stop("This PDF looks like a scanned image.")
      ELSE [checks |-> [checks EXCEPT !.readable_text = TRUE], first_error |-> ""]

\* extract_text_from_file of v1.3: (text, hint)
extract_text_from_file(file, pdf_reader, docx_reader, decrypt_raises) ==
  LET failed(hint) == [text |-> <<>>, hint |-> hint]
  IN  IF file.ext = "pdf" THEN
        IF ~pdf_reader THEN failed("PDF reader not available on server.")
        ELSE IF file.content = "encrypted" /\ decrypt_raises
          THEN failed("This PDF is password-protected.")
        ELSE IF ReaderRaises(file) THEN failed("We couldn't open this PDF.")
        ELSE IF Strip(ReaderText(file)) = <<>>
          THEN failed("This PDF looks like a scanned image.")
        ELSE [text |-> ReaderText(file), hint |-> ""]
      ELSE IF file.ext = "docx" THEN
        IF ~docx_reader THEN failed("DOCX reader not available on server.")
        ELSE IF ReaderRaises(file) THEN failed("We couldn't open this DOCX.")
        ELSE IF Strip(ReaderText(file)) = <<>>
          THEN failed("We couldn't read text from this DOCX.")
        ELSE [text |-> ReaderText(file), hint |-> ""]
      ELSE IF file.ext = "txt" THEN [text |-> Decoded(file), hint |-> ""]
      ELSE failed("Unsupported file type.")

\* The handler up to the call of score_resume: the error it shows ("" for none) and
\* the text it passes on. form.complete is (name and email and phone and uploaded
\* and agree).
BeforeScoring(variant, form, pdf_reader, docx_reader, decrypt_raises) ==
  LET stop(message) == [error |-> message, raw_text |-> <<>>]
  IN  IF ~form.complete THEN stop("Please fill all fields, upload a resume, and accept.")
      ELSE IF variant = "v13" THEN
        LET first_error == precheck_file(form.uploaded, pdf_reader, decrypt_raises).first_error
            got == extract_text_from_file(form.uploaded, pdf_reader, docx_reader, decrypt_raises)
        IN  IF first_error # "" THEN stop(first_error)
            ELSE IF got.hint # "" THEN stop(got.hint)
            ELSE IF Strip(got.text) = <<>> THEN stop("We couldn't read any text.")
            ELSE [error |-> "", raw_text |-> got.text]
      ELSE
        LET raw_text == extract_text(form.uploaded, pdf_reader, docx_reader)
        IN  IF Strip(raw_text) = <<>> THEN stop("Could not read your file.")
            ELSE [error |-> "", raw_text |-> raw_text]

\* total, breakdown, suggestions = score_resume(raw_text, target_role, extra_kw); the
\* research-backed handler passes the job description instead of extra keywords.
HandlerScore(variant, table, raw_text, target_role, available) ==
  IF variant = "classic" THEN ScoreV1(table, raw_text, target_role, <<>>)
  ELSE IF variant = "v13" THEN ScoreV13(table, raw_text, target_role, <<>>)
  ELSE ScoreV2(table, raw_text, target_role, <<>>, available)

------------------------------------------------------------------------------
(* A script run per form submission *)

NoForm == [complete |-> FALSE, uploaded |-> [ext |-> "", size |-> 0, content |-> "none"]]

\* A session before its first submission.
FreshRun ==
  [at |-> "ready", form |-> NoForm, scored |-> FALSE, saving |-> FALSE, result |-> NoRet,
   df |-> <<>>, after |-> "", shown |-> "nothing", message |-> "", submits |-> 0,
   returned |-> {}]

\* leads.csv with its header line and no row.
HeaderOnly == [exists |-> TRUE, rows |-> <<>>]

\* The uploads tried: every kind by a single session, the plain text file when
\* several sessions are open.
UploadsFor(sessions) == IF Cardinality(sessions) = 1 THEN Uploads ELSE {PlainUpload}

\* The app is deployed: its imports are done, leads.csv may exist from an earlier day.
AppInit ==
  /\ app \in {"classic", "v13", "research"}
  /\ ROLE_KEYWORDS = IF app = "research" THEN ROLE_KEYWORDS_V2 ELSE ROLE_KEYWORDS_V1
  /\ TfidfVectorizer \in (IF app = "research" THEN BOOLEAN ELSE {FALSE})
  /\ pc = "idle"
  /\ call = NoCall
  /\ ret = NoRet
  /\ extras_seen = FALSE
  /\ PyPDF2 \in BOOLEAN
  /\ docx2txt \in BOOLEAN
  /\ leads_csv \in {NoFile, HeaderOnly}
  /\ run = [s \in {1} |-> FreshRun]

\* The app serves several sessions; every reader is installed.
LeadsInit ==
  /\ app \in {"classic", "v13", "research"}
  /\ ROLE_KEYWORDS = IF app = "research" THEN ROLE_KEYWORDS_V2 ELSE ROLE_KEYWORDS_V1
  /\ TfidfVectorizer = FALSE
  /\ pc = "idle"
  /\ call = NoCall
  /\ ret = NoRet
  /\ extras_seen = FALSE
  /\ PyPDF2 = TRUE
  /\ docx2txt = TRUE
  /\ leads_csv \in {NoFile, HeaderOnly}
  /\ run = [s \in 1..MaxSessions |-> FreshRun]

\* Where init_leads() returns to: the sidebar's read or save_lead's read.
AfterInit(s) == IF run[s].after = "save" THEN "save_read" ELSE "sidebar_read"

\* Where the script goes after the handler: the research-backed script renders its
\* sidebar last, the classic ones before the form.
AfterHandler(r) ==
  IF app = "research" THEN [r EXCEPT !.at = "init_leads", !.after = "sidebar"]
  ELSE [r EXCEPT !.at = "done"]

\* The form is submitted and the script runs from its top. The classic script of
\* lines 1-358 calls init_leads() in its sidebar with no module-level import of os:
\* NameError at line 240, before the form is reached. v1.3 renders the sidebar first,
\* the research-backed script the handler.
submitted(s) ==
  /\ run[s].at \in {"ready", "done", "crashed"}
  /\ run[s].submits < MaxSubmits
  /\ \E complete \in BOOLEAN, uploaded \in UploadsFor(DOMAIN run) :
       run' = [run EXCEPT ![s] =
                 [@ EXCEPT !.form = [complete |-> complete, uploaded |-> uploaded],
                           !.scored = FALSE, !.saving = FALSE, !.result = NoRet,
                           !.df = <<>>, !.message = "",
                           !.submits = @ + 1,
                           !.at = IF app = "classic" THEN "crashed"
                                  ELSE IF app = "v13" THEN "init_leads" ELSE "handler",
                           !.after = IF app = "v13" THEN "sidebar" ELSE "",
                           !.shown = IF app = "classic" THEN "exception" ELSE "nothing"]]
  /\ UNCHANGED <<import_vars, score_vars, leads_csv>>

\* init_leads(): if not os.path.exists(LEADS_CSV)
init_leads_exists(s) ==
  /\ run[s].at = "init_leads"
  /\ run' = [run EXCEPT ![s].at = IF leads_csv.exists THEN AfterInit(s) ELSE "init_leads_create"]
  /\ UNCHANGED <<import_vars, score_vars, leads_csv>>

\* init_leads(): pd.DataFrame(columns=[...]).to_csv(LEADS_CSV, index=False)
init_leads_create(s) ==
  /\ run[s].at = "init_leads_create"
  /\ leads_csv' = HeaderOnly
  /\ run' = [run EXCEPT ![s].at = AfterInit(s)]
  /\ UNCHANGED <<import_vars, score_vars>>

\* The sidebar: df = pd.read_csv(LEADS_CSV), shown as a count and a table.
sidebar_read(s) ==
  /\ run[s].at = "sidebar_read"
  /\ run' = [run EXCEPT ![s].at = IF app = "v13" THEN "handler" ELSE "done"]
  /\ UNCHANGED <<import_vars, score_vars, leads_csv>>

\* if submitted: the checks, the extraction, score_resume, and the call of save_lead.
handler(s) ==
  /\ run[s].at = "handler"
  /\ \E decrypt_raises \in BOOLEAN :
       LET before == BeforeScoring(app, run[s].form, PyPDF2, docx2txt, decrypt_raises)
           result == HandlerScore(app, ROLE_KEYWORDS, before.raw_text, "General / Fresher",
                                  TfidfVectorizer)
       IN  IF before.error # ""
           THEN /\ run' = [run EXCEPT ![s] =
                             AfterHandler([@ EXCEPT !.shown = "error", !.message = before.error])]
                /\ UNCHANGED ROLE_KEYWORDS
           ELSE /\ run' = [run EXCEPT ![s] =
                             IF result.outcome = "raised"
                             THEN [@ EXCEPT !.scored = TRUE, !.result = result,
                                            !.at = "crashed", !.shown = "exception"]
                             ELSE [@ EXCEPT !.scored = TRUE, !.result = result,
                                            !.saving = TRUE,
                                            !.at = "init_leads", !.after = "save"]]
                /\ ROLE_KEYWORDS' = IF app = "research" THEN ROLE_KEYWORDS
                                    ELSE TableAfterV1(ROLE_KEYWORDS, "General / Fresher", <<>>)
  /\ UNCHANGED <<import_vars, pc, call, ret, extras_seen, leads_csv>>

\* save_lead: df = pd.read_csv(LEADS_CSV)
save_lead_read(s) ==
  /\ run[s].at = "save_read"
  /\ run' = [run EXCEPT ![s].df = leads_csv.rows, ![s].at = "save_write"]
  /\ UNCHANGED <<import_vars, score_vars, leads_csv>>

\* save_lead: df = pd.concat([df, pd.DataFrame([row])]); df.to_csv(LEADS_CSV); then
\* the handler shows st.success(total), the metrics and the suggestions.
save_lead_write(s) ==
  /\ run[s].at = "save_write"
  /\ leads_csv' = [exists |-> TRUE,
                   rows |-> Append(run[s].df, [session |-> s, n |-> run[s].submits,
                                               score |-> run[s].result.total])]
  /\ run' = [run EXCEPT ![s] =
               AfterHandler([@ EXCEPT !.saving = FALSE, !.shown = "score",
                                      !.returned = @ \cup {run[s].submits}])]
  /\ UNCHANGED <<import_vars, score_vars>>

\* A file operation raises (OSError, pandas.errors.EmptyDataError, ...): nothing in
\* the scripts catches it, and the script run ends there.
io_error(s) ==
  /\ run[s].at \in {"init_leads_create", "sidebar_read", "save_read", "save_write"}
  /\ run' = [run EXCEPT ![s].at = "crashed",
                        ![s].shown = IF run[s].shown = "score" THEN "score" ELSE "exception"]
  /\ UNCHANGED <<import_vars, score_vars, leads_csv>>

AppNext ==
  \/ \E s \in DOMAIN run : submitted(s)
  \/ \E s \in DOMAIN run : init_leads_exists(s)
  \/ \E s \in DOMAIN run : init_leads_create(s)
  \/ \E s \in DOMAIN run : sidebar_read(s)
  \/ \E s \in DOMAIN run : handler(s)
  \/ \E s \in DOMAIN run : save_lead_read(s)
  \/ \E s \in DOMAIN run : save_lead_write(s)
  \/ \E s \in DOMAIN run : io_error(s)

\* One session, every kind of upload.
AppSpec == AppInit /\ [][AppNext]_vars

\* Several sessions, whose steps on leads.csv interleave.
LeadsSpec == LeadsInit /\ [][AppNext]_vars

------------------------------------------------------------------------------
(* The lead store and the handler *)

Sessions == DOMAIN run

\* The script run of session s is over.
Over(s) == run[s].at \in {"done", "crashed"}

\* Session s is inside a call of save_lead.
InSaveLead(s) == run[s].saving

\* The submissions whose call of save_lead has returned.
SavedLeads == {<<s, n>> : s \in Sessions, n \in 1..MaxSubmits} \cap
              {sn \in Sessions \X (1..MaxSubmits) : sn[2] \in run[sn[1]].returned}

\* The submissions that have a row in leads.csv.
StoredLeads == {<<leads_csv.rows[i].session, leads_csv.rows[i].n>> : i \in 1..Len(leads_csv.rows)}

\* C14 as stated: whenever every call of save_lead has returned, in any interleaving
\* of the reads and writes of the file, leads.csv holds exactly one row for each of
\* these calls, none removed.
C14_OneRowPerSavedLead ==
  (\A s \in Sessions : ~InSaveLead(s)) =>
    /\ StoredLeads = SavedLeads
    /\ Len(leads_csv.rows) = Cardinality(SavedLeads)

\* Two sessions have each saved a lead, and leads.csv holds one row.
C14_Witness ==
  /\ \A s \in Sessions : ~InSaveLead(s)
  /\ \E s, t \in Sessions : s # t /\ run[s].returned # {} /\ run[t].returned # {}
  /\ Len(leads_csv.rows) = 1

\* C15 as stated: on every submission for which score_resume returned, the score, the
\* breakdown and the suggestions are shown, whether or not save_lead succeeded.
C15_ScoreShownWhateverTheStore ==
  \A s \in Sessions :
    Over(s) /\ run[s].scored /\ run[s].result.outcome = "returned" => run[s].shown = "score"

\* score_resume returned, save_lead raised, and the run ended without the score.
C15_Witness ==
  \E s \in Sessions :
    /\ app \in {"v13", "research"}
    /\ run[s].at = "crashed"
    /\ run[s].scored /\ run[s].result.outcome = "returned"
    /\ run[s].submits \notin run[s].returned
    /\ run[s].shown = "exception"

\* Extraction failed: the file is empty, above the size limit (v1.3 has one), locked,
\* scanned, damaged or without text, or the reader for its type is not installed.
ExtractionFailed(file) ==
  \/ file.size = 0
  \/ app = "v13" /\ file.size > MAX_FILE_MB
  \/ file.content \in {"encrypted", "scanned", "corrupt", "notext", "blank"}
  \/ file.ext = "pdf" /\ ~PyPDF2
  \/ file.ext = "docx" /\ ~docx2txt

\* C16 as stated: on every submission where extraction failed the handler shows an
\* error message and reaches neither score_resume nor save_lead.
C16_NoScoringAfterFailedExtraction ==
  \A s \in Sessions :
    /\ run[s].form.complete
    /\ ExtractionFailed(run[s].form.uploaded)
    /\ run[s].at # "ready"
    => /\ ~run[s].scored
       /\ ~run[s].saving /\ run[s].submits \notin run[s].returned
       /\ run[s].at = "done" => run[s].shown = "error"

\* Research-backed, a scanned PDF with the PDF reader installed: the decoded bytes of
\* the file are scored, saved and shown with a score.
C16_Witness ==
  \E s \in Sessions :
    /\ app = "research" /\ PyPDF2
    /\ run[s].form.complete
    /\ run[s].form.uploaded = [ext |-> "pdf", size |-> 1, content |-> "scanned"]
    /\ run[s].at = "done"
    /\ run[s].scored /\ run[s].submits \in run[s].returned
    /\ run[s].shown = "score"

------------------------------------------------------------------------------
(* Sections, the keyword formula, the keyword suggestion, impact *)

\* The section catalog of the app, and its budget in points.
Catalog == IF Classic THEN SECTION_HINTS ELSE SECTIONS_V2
SectionBudget == IF Classic THEN 20 ELSE 15

\* A section is present when one of its aliases, whichever, occurs in the text.
Present(section) == \E a \in Range(section.aliases) : In(a, lower(call.text))

\* The names of the absent sections, in catalog order.
AbsentNames ==
  LET absent == SelectSeq(Catalog, LAMBDA s : ~Present(s))
  IN  [i \in 1..Len(absent) |-> absent[i].sec]

\* The section names of the emitted add-a-section suggestions, in the order emitted.
SectionSuggestions ==
  LET sel == SelectSeq(ret.emitted, LAMBDA s : s.kind = "add_section")
  IN  [i \in 1..Len(sel) |-> sel[i].name]

\* value (in hundredths) is num / den rounded to one decimal.
IsRounded1(value, num, den) ==
  /\ value % 10 = 0
  /\ 2 * Abs(10 * num - (value \div 10) * den) <= den

\* C17: a section is present exactly when one of its aliases occurs in the lower-cased
\* text; Structure is the number of present sections times budget / number of
\* sections, rounded to one decimal (20 over 7 classic, 15 over 5 research-backed);
\* one add-a-section suggestion is emitted per absent section, in catalog order.
C17_SectionsAndStructure ==
  Returned =>
    LET present == Cardinality({i \in 1..Len(Catalog) : Present(Catalog[i])})
    IN  /\ Len(Catalog) = IF Classic THEN 7 ELSE 5
        /\ IsRounded1(ret.breakdown.Structure, present * SectionBudget, Len(Catalog))
        /\ SectionSuggestions = AbsentNames

\* Classic, two sections present through their third alias ("profile", "licenses").
C17_Witness ==
  /\ Returned /\ Classic
  /\ call.text = VerbLine
  /\ ret.breakdown.Structure = 570
  /\ SectionSuggestions = <<"Experience", "Projects", "Education", "Skills", "Achievements">>

\* len(found_role): the number of entries of the request's keyword list that occur in
\* the text.
FoundCount == Len(FilterIn(RequestWords, lower(call.text)))

\* C18: the Keywords score is the policy formula of the found count: classic
\* min(found_count x 30/12, 30); research-backed min(25, round(coverage x 25 +
\* min(found_count, 12), 1)) with coverage = found_count / size of the role's keyword
\* set, and coverage is never above 1.
C18_KeywordsFormula ==
  Returned =>
    LET found_count == FoundCount
        size == Cardinality(Range(RequestWords))
        \* coverage x 25 + min(found_count, 12), as a ratio over size
        blend == 25 * found_count + Min(found_count, 12) * size
        keywords == ret.breakdown.Keywords
    IN  IF Classic
        THEN 12 * keywords = Min(found_count * 3000, 36000)
        ELSE /\ size > 0
             /\ found_count <= size
             /\ keywords <= 2500
             /\ keywords < 2500 => IsRounded1(keywords, blend, size)
             \* the band caps a rounded value of 25.0 or more
             /\ keywords = 2500 => 20 * blend >= 499 * size

\* Research-backed, nine of thirteen keywords found: 17.3 + 9 is above the band.
C18_Witness ==
  /\ Returned /\ Research
  /\ call.text = RichResume
  /\ FoundCount = 9 /\ Cardinality(Range(RequestWords)) = 13
  /\ ret.breakdown.Keywords = 2500

\* The emitted keyword suggestions.
KeywordSuggestions == SelectSeq(ret.emitted, LAMBDA s : s.kind = "keywords")

\* Fewer than 8 found (classic), coverage < 0.5 (research-backed).
BelowThreshold ==
  IF Classic THEN FoundCount < 8 ELSE 2 * FoundCount < Cardinality(Range(RequestWords))

\* C19: the missing-keywords suggestion is emitted exactly when fewer than 8 keywords
\* are found (classic) or coverage < 0.5 (research-backed); it lists the
\* alphabetically first keywords of the request's keyword set minus the found ones,
\* at most 8 (classic) or 10 (research-backed), each once, and at least one.
C19_MissingKeywords ==
  Returned =>
    /\ Len(KeywordSuggestions) = IF BelowThreshold THEN 1 ELSE 0
    /\ \A i \in 1..Len(KeywordSuggestions) :
         LET missing == KeywordSuggestions[i].missing
             rest == Range(RequestWords) \ FoundSet(call.text)
         IN  /\ KeywordSuggestions[i].name = call.role
             /\ Len(missing) = Min(IF Classic THEN 8 ELSE 10, Cardinality(rest))
             /\ Len(missing) >= 1
             /\ Range(missing) \subseteq rest
             /\ \A a, b \in 1..Len(missing) : a < b => LexLess(missing[a], missing[b])
             /\ \A w \in rest \ Range(missing) :
                  \A a \in 1..Len(missing) : LexLess(missing[a], w)

\* Classic, the empty text with extra keywords: fourteen keywords are missing and the
\* first eight are listed.
C19_Witness ==
  /\ Returned /\ Classic
  /\ call.text = <<>> /\ call.extra_keywords = ExtraSql
  /\ Len(KeywordSuggestions) = 1
  /\ Cardinality(Range(RequestWords) \ FoundSet(call.text)) = 14
  /\ Len(KeywordSuggestions[1].missing) = 8

\* The action verbs of the vocabulary that occur in the text, each counted once.
VerbCount ==
  Cardinality({w \in Range(IF Classic THEN ACTION_VERBS_V1 ELSE ACTION_VERBS_V2) :
                 In(w, lower(call.text))})

NumCount == CountNumbers(lower(call.text))

\* min(band_max, base + min(num_count, cap1) x w1 + min(verb_count, cap2) x w2)
ImpactFormula(base, cap1, w1, cap2, w2, band_max) ==
  Min(band_max, base + Min(NumCount, cap1) * w1 + Min(VerbCount, cap2) * w2)

\* C20 as stated: Impact is the formula of the number count and of the number of
\* distinct action verbs in the text, (10, 5, 2, 5, 1.5, 20) classic and
\* (0, 6, 1.8, 6, 0.9, 15) research-backed; the quantify suggestion is emitted
\* exactly when num_count < 3, the action-verbs suggestion exactly when verb_count < 3.
C20_ImpactOfDistinctVerbs ==
  Returned =>
    /\ ret.breakdown.Impact = IF Classic THEN ImpactFormula(1000, 5, 200, 5, 150, 2000)
                              ELSE ImpactFormula(0, 6, 180, 6, 90, 1500)
    /\ Sug("quantify") \in Range(ret.emitted) <=> NumCount < 3
    /\ Sug("action_verbs") \in Range(ret.emitted) <=> VerbCount < 3

\* Classic, "designed built ...": two verbs occur, three are counted ("designed" is
\* listed twice), and the action-verbs suggestion is not emitted.
C20_Witness ==
  /\ Returned /\ Classic
  /\ call.text = VerbLine
  /\ VerbCount = 2 /\ NumCount = 0
  /\ ret.breakdown.Impact = 1450
  /\ Sug("action_verbs") \notin Range(ret.emitted)
------------------------------------------------------------------------------
(* Resumes by length *)

\* Every word count from 0 to ShortWords is scored, and the counts around the ends of
\* the ideal intervals and around the count where the penalty reaches 10.
ShortWords == 30
WordCounts == 0..ShortWords \cup {299, 300, 349, 350, 900, 901, 1600, 1601}

\* A text of n words "x", one space between two words.
WordsText(n) == [i \in 1..(2 * n - 1) |-> IF i % 2 = 1 THEN "x" ELSE " "]

\* score_resume called on texts of these lengths, with the default role, no extra
\* keywords and no job description.
LengthNext ==
  \/ score_resume_classic({WordsText(n) : n \in WordCounts}, {"General / Fresher"}, {<<>>})
  \/ score_resume_research({"General / Fresher"},
                           [text \in {WordsText(n) : n \in WordCounts} |-> {<<>>}])
  \/ Finish

LengthSpec == Init /\ [][LengthNext]_vars

------------------------------------------------------------------------------
(* The pre-checks of v1.3, called on their own *)

\* The files precheck_file is given: the uploads of the form, files of a type the
\* form does not offer, and files whose read() raises.
CheckedFiles ==
  Uploads
    \cup {[ext |-> "png", size |-> n, content |-> "text"] : n \in {0, 1, MAX_FILE_MB + 1}}
    \cup {[ext |-> e, size |-> 1, content |-> "unreadable"] : e \in ALLOWED_EXTS}

\* checks, first_error = precheck_file(uploaded)
call_precheck_file ==
  /\ pc = "idle"
  /\ app = "v13"
  /\ \E file \in CheckedFiles, decrypt_raises \in BOOLEAN :
       LET got == precheck_file(file, PyPDF2, decrypt_raises)
       IN  /\ call' = [file |-> file, decrypt_raises |-> decrypt_raises]
           /\ ret' = [outcome |-> "returned", checks |-> got.checks,
                      first_error |-> got.first_error]
  /\ pc' = "returned"
  /\ UNCHANGED <<ROLE_KEYWORDS, extras_seen, import_vars, io_vars>>

\* v1.3 is deployed, with or without its readers.
PrecheckInit == AppInit /\ app = "v13"

\* precheck_file is called any number of times.
PrecheckSpec == PrecheckInit /\ [][call_precheck_file \/ Finish]_vars

------------------------------------------------------------------------------
(* ATS checks, the length of the resume, the pre-checks of an upload *)

\* The bullet markers of a text as the policy counts them: every line that starts
\* with "-", BULLET or MIDDOT, the first line included, and every other BULLET.
BulletMarkers(t) ==
  Cardinality({i \in 1..Len(t) :
     \/ (i = 1 \/ t[i - 1] = "\n") /\ t[i] \in {"-", "BULLET", "MIDDOT"}
     \/ t[i] = "BULLET"})

\* C21: ATS is the sum of four independent binary checks: 3 for an email pattern, 3
\* for a phone pattern, 2 for five bullet markers or more (lines that start with a
\* marker, the first line included, and every other BULLET), 2 for a special-character
\* ratio under 0.05; so five lines that each start with "-" earn the 2.
C21_AtsOfFourChecks ==
  Returned =>
    ret.breakdown.ATS =
      (IF HasEmail(lower(call.text)) THEN 300 ELSE 0)
        + (IF HasPhone(lower(call.text)) THEN 300 ELSE 0)
        + (IF BulletMarkers(call.text) >= 5 THEN 200 ELSE 0)
        + (IF SpecialRatioLow(call.text) THEN 200 ELSE 0)

\* Five lines of one "-" each: five markers, and ATS is 2.0, the points of the
\* special-character check alone.
C21_Witness ==
  /\ Returned
  /\ call.text = DashLines
  /\ BulletMarkers(call.text) = 5
  /\ CountBullets(call.text) = 4
  /\ ret.breakdown.ATS = 200

\* The length score of a word count, in hundredths: 10 inside lo..900, otherwise
\* max(0, 10 - |word_count - 600| / 100).
LengthScore(word_count, lo) ==
  IF lo <= word_count /\ word_count <= 900 THEN 1000
  ELSE Max(0, 1000 - Abs(word_count - 600))

\* The conciseness suggestion is emitted exactly when the word count is outside lo..900.
ConciseWhenOutside(lo) ==
  Sug("concise") \in Range(ret.emitted)
    <=> ~(lo <= ret.breakdown.WordCount /\ ret.breakdown.WordCount <= 900)

\* The breakdown has a Formatting entry, the length score of the word count to one
\* decimal, and the total is the other sub-scores plus the length score, to one decimal.
FormattingScored(lo) ==
  /\ "Formatting" \in DOMAIN ret.breakdown
  /\ LET score == LengthScore(ret.breakdown.WordCount, lo)
         others == SumOver(ret.breakdown, DOMAIN Bands \ {"Formatting"})
     IN  /\ IsRounded1(ret.breakdown.Formatting, score, 100)
         /\ ret.total % 10 = 0
         /\ Abs(ret.total - (others + score)) <= 5

\* C22 as stated: in both variants the breakdown and the total include a Formatting
\* sub-score, 10 when the word count is in the ideal interval (350..900 classic,
\* 300..900 research-backed) and max(0, 10 - |word_count - 600| / 100) otherwise, and
\* the conciseness suggestion is emitted exactly outside the ideal interval.
C22_FormattingInBothVariants ==
  Returned => /\ FormattingScored(IF Classic THEN 350 ELSE 300)
              /\ ConciseWhenOutside(IF Classic THEN 350 ELSE 300)

\* C22, amended: the classic variant includes the Formatting sub-score (ideal interval
\* 350..900) in the breakdown, to one decimal, and in the total; the research-backed
\* variant computes no Formatting sub-score: its breakdown has no such entry and its
\* total is the sum of its six sub-scores. Both emit the conciseness suggestion exactly
\* when the word count is outside the ideal interval (350..900 classic, 300..900
\* research-backed).
C22_LengthScore ==
  Returned =>
    IF Classic
    THEN FormattingScored(350) /\ ConciseWhenOutside(350)
    ELSE /\ "Formatting" \notin DOMAIN ret.breakdown
         /\ ret.total = SumOver(ret.breakdown, DOMAIN BandsResearch)
         /\ ConciseWhenOutside(300)

\* A classic resume of 349 words, one word short of the ideal interval: Formatting is
\* 10 - 2.51 to one decimal, and the suggestion is emitted.
C22_Witness ==
  /\ Returned /\ Classic
  /\ ret.breakdown.WordCount = 349
  /\ ret.breakdown.Formatting = 750
  /\ Sug("concise") \in Range(ret.emitted)

\* The six checks in the order their steps are taken, and the messages of each step.
StepOrder ==
  <<"type_supported", "not_empty", "size_ok", "pdf_reader_available",
    "not_password_protected", "readable_text">>
StepMessages ==
  [type_supported |-> {"Unsupported file type."},
   not_empty |-> {"This file is empty."},
   size_ok |-> {"File too large."},
   pdf_reader_available |-> {"PDF reader is not available on server."},
   not_password_protected |-> {"This PDF is password-protected."},
   readable_text |-> {"This PDF looks like a scanned image.", "We couldn't open this PDF.",
                      "We couldn't read this file."}]

\* The first check, in step order, that is false in the checks mapping ("none" when
\* every check is true).
FirstFailing(checks) ==
  LET failing == {i \in 1..Len(StepOrder) : ~checks[StepOrder[i]]}
  IN  IF failing = {} THEN "none"
      ELSE StepOrder[CHOOSE i \in failing : \A j \in failing : i <= j]

\* C23: precheck_file returns an empty error message exactly when all six checks of
\* the returned mapping are true; otherwise the message is the one of the first
\* failing step in the order unsupported type, empty file, file too large, PDF reader
\* unavailable, password-protected, scanned/unreadable; and two calls that fail at
\* different steps return different messages.
C23_PrecheckFirstError ==
  Returned =>
    /\ DOMAIN ret.checks = Range(StepOrder)
    /\ (ret.first_error = "") <=> (\A k \in DOMAIN ret.checks : ret.checks[k])
    /\ ret.first_error # "" =>
         /\ FirstFailing(ret.checks) # "none"
         /\ ret.first_error \in StepMessages[FirstFailing(ret.checks)]
         /\ \A file \in CheckedFiles, pdf_reader \in BOOLEAN, decrypt_raises \in BOOLEAN :
              LET other == precheck_file(file, pdf_reader, decrypt_raises)
              IN  (other.first_error # ""
                     /\ FirstFailing(other.checks) # FirstFailing(ret.checks))
                    => other.first_error # ret.first_error

\* A PDF above the size limit on a server without a PDF reader: three checks are
\* false, and the message is the one of the size step, the first of them.
C23_Witness ==
  /\ Returned
  /\ call.file.ext = "pdf" /\ call.file.size > MAX_FILE_MB /\ ~PyPDF2
  /\ ~ret.checks.size_ok /\ ~ret.checks.pdf_reader_available /\ ~ret.checks.readable_text
  /\ ret.first_error = "File too large."
====
